---- MODULE Spec2Model ----
(***************************************************************************)
(* A model of two parts of wasp:                                           *)
(*   - the `wasp validate` tool (src/src/tools/validate.cc): Main, Tool,   *)
(*     Tool::Run and the visitor callbacks, driven by the lazy readers;    *)
(*     specification Spec;                                                 *)
(*   - the text writer's formatting context and the writers built on it    *)
(*     (src/include/wasp/text/write.h); specification SpecW.               *)
(***************************************************************************)
EXTENDS Integers, Sequences, FiniteSets, TLC

\* ------------------------------------------------------------------ bounds

\* Filenames on the command line.
MaxFiles == 2
\* Sections and entries (together) the lazy readers yield for one file.
MaxItems == 2
\* Locals entries and instructions (together) of one code entry.
MaxBody == 2
\* Indent levels after which no further call raises the indent.
MaxDepth == 2
\* Instructions of a list handed to WriteWithNewlines.
MaxList == 2

VARIABLES
  pc,               \* where Main is: "start", "loop", "tool", "sections",
                    \* "entries", "returned" (Run has returned to the
                    \* loop), "done" (Main returned), "exited" (exit())
  args,             \* the parsed command line: [help, empty, filenames];
                    \* filenames is how many filenames were given, and
                    \* empty says that none was
  findex,           \* how many filenames the loop of Main has taken
  ok,               \* Main's local `ok`
  exitcode,         \* the process's exit code, None until it ends
  module,           \* Tool::module: [magic, version] as read by ReadModule
  errors,           \* what Tool::errors has been handed, in order
  context,          \* Tool::context (valid::Context)
  last_section_id,  \* Tool::Visitor::last_section_id, an optional
  cur,              \* the known section whose entries are being visited
  events,           \* what the readers have yielded for the current file
  calls,            \* the visitor callbacks invoked for the current file
  allgood,          \* whether every file taken so far could be read and
                    \* Run returned true for it
  lastfile,         \* what Run returned for the current file: "none" while
                    \* it has not returned, then "ok" (true) or "fail"
  unread,           \* when an entry's callback has stopped the traversal:
                    \* whether the rest of the file, which is never read,
                    \* holds another invalid entry
  stale,            \* whether, where the current file's Tool was
                    \* constructed, the previous file's had left a context
                    \* with types defined and a last_section_id
  wctx,             \* the text writer's WriteContext: separator, indent,
                    \* and how many Indent calls no Dedent has undone
  out,              \* the characters the last writer call put out through
                    \* the output iterator it was handed
  thrown,           \* whether the last writer call ended in an exception
  tail,             \* the last character of all that the writer calls
                    \* have put out so far, "" while there is none
  lastcall,         \* the writer that was called last, "" before the first
  lastarg,          \* the value it was given, None where no claim needs it
  bytes,            \* the bytes the binary writer has put out
  value_stack,      \* the validator's value stack: StackTypes, top last
  control_stack,    \* its control stack: CtrlFrames, innermost last
  valid,            \* FALSE once a step of the function body has failed
  popped,           \* what the last PopValueExpect returned, None when it
                    \* failed and while there was none
  func_type,        \* the type of the function whose body is validated
  misflushed,       \* whether the last writer call flushed a newline
                    \* separator that it had set itself and that was
                    \* not the indent at the time of the flush
  read_result       \* what the last read of the binary reader returned:
                    \* Some([value, size]), or None for Malformed

toolvars == <<pc, args, findex, ok, exitcode, module, errors, context,
              last_section_id, cur, events, calls, allgood, lastfile, unread,
              stale>>
typevars == <<value_stack, control_stack, valid, popped, func_type, read_result>>
othervars == <<value_stack, control_stack, valid, popped, func_type, read_result,
               misflushed>>
writevars == <<wctx, out, thrown, tail, lastcall, lastarg, bytes,
               value_stack, control_stack, valid, popped, func_type, read_result,
               misflushed>>
vars == <<pc, args, findex, ok, exitcode, module, errors, context,
          last_section_id, cur, events, calls, allgood, lastfile, unread,
          stale, wctx, out, thrown, tail, lastcall, lastarg, bytes,
          value_stack, control_stack, valid, popped, func_type, read_result,
          misflushed>>

\* ------------------------------------------------------------ optionals

\* optional<T>: nullopt is the empty sequence, a value v is <<v>>.
None == <<>>
Some(v) == <<v>>

\* std::optional's operator>= : x >= nullopt for every x, and
\* nullopt >= a value never.
OptGE(a, b) ==
  IF b = None THEN TRUE
  ELSE IF a = None THEN FALSE
  ELSE a[1] >= b[1]

\* ------------------------------------------------------------ section ids

\* The section ids the readers can deliver in a KnownSection: the twelve
\* of kSectionOrder and an id that is no enumerator, as
\* static_cast<SectionId>(100) in the formatters' test.
KnownIds == {"Type", "Import", "Function", "Table", "Memory", "Global",
             "Export", "Start", "Element", "DataCount", "Code", "Data"}
UndefinedIds == {"100"}
SectionIds == KnownIds \cup UndefinedIds

kSectionOrder == <<"Type", "Import", "Function", "Table", "Memory", "Global",
                   "Export", "Start", "Element", "DataCount", "Code", "Data">>

\* format("{}", SectionId): the enumerator's name in lower case, the
\* number when the id is no enumerator.
SectionIdName(id) ==
  CASE id = "Type" -> "type"
    [] id = "Import" -> "import"
    [] id = "Function" -> "function"
    [] id = "Table" -> "table"
    [] id = "Memory" -> "memory"
    [] id = "Global" -> "global"
    [] id = "Export" -> "export"
    [] id = "Start" -> "start"
    [] id = "Element" -> "element"
    [] id = "DataCount" -> "data_count"
    [] id = "Code" -> "code"
    [] id = "Data" -> "data"
    [] OTHER -> id

\* One error handed to ErrorsBasic: the position and the message.
Err(pos, msg) == [pos |-> pos, msg |-> msg]

\* std::find over kSectionOrder: the 0-based index of the first match.
FindOrder(id) ==
  IF \E i \in 1..Len(kSectionOrder) : kSectionOrder[i] = id
  THEN Some((CHOOSE i \in 1..Len(kSectionOrder) :
               /\ kSectionOrder[i] = id
               /\ \A j \in 1..(i - 1) : kSectionOrder[j] # id) - 1)
  ELSE None

\* The lambda get_order of OnSection: the order, and the error it reports
\* at the current section when the id is not in kSectionOrder.
get_order(id, pos) ==
  LET o == FindOrder(id)
  IN [order |-> o,
      errs |-> IF o = None
               THEN <<Err(pos, "Unknown section id: " \o SectionIdName(id) \o "\n")>>
               ELSE <<>>]

\* get_order(*last_section_id) >= order
OutOfOrderMutGT(lastorder, order) == lastorder # None /\ order # None /\ lastorder[1] > order[1]
OutOfOrder(lastorder, order) == OptGE(lastorder, order)

\* The branch of OnSection that rejects a section: the error at the
\* section's position, Fail, and last_section_id as it was.
RejectSectionMutSetsLast(last, id, pos) ==
  [result |-> "Fail", last |-> Some(id),
   errs |-> <<Err(pos, "Section out of order: " \o SectionIdName(id)
                       \o " cannot occur after "
                       \o SectionIdName(last[1]) \o "\n")>>]
RejectSection(last, id, pos) ==
  [result |-> "Fail", last |-> last,
   errs |-> <<Err(pos, "Section out of order: " \o SectionIdName(id)
                       \o " cannot occur after "
                       \o SectionIdName(last[1]) \o "\n")>>]

\* OnSection for a section that is not known: Ok, and nothing changes.
OnCustomSectionMutReset(last) == [result |-> "Ok", last |-> None, errs |-> <<>>]
OnCustomSection(last) == [result |-> "Ok", last |-> last, errs |-> <<>>]

\* OnSection for a known section with id `id`.
OnKnownSection(last, id, pos) ==
  LET o == get_order(id, pos)
  IN IF last # None
     THEN LET lo == get_order(last[1], pos)
              rej == RejectSection(last, id, pos)
          IN IF OutOfOrder(lo.order, o.order)
             THEN [rej EXCEPT !.errs = o.errs \o lo.errs \o @]
             ELSE [result |-> "Ok", last |-> Some(id), errs |-> o.errs \o lo.errs]
     ELSE [result |-> "Ok", last |-> Some(id), errs |-> o.errs]

\* Tool::Visitor::OnSection. section = [is_known, id]; pos is the position
\* of the section's data.
OnSection(last, section, pos) ==
  IF section.is_known
  THEN OnKnownSection(last, section.id, pos)
  ELSE OnCustomSection(last)

\* ------------------------------------------------------- the validator

\* valid::Context as far as the entries modelled here read it: the number
\* of type entries defined so far.
NewContext == [types |-> 0]

\* What the readers yield as entries. A type entry and the entries of the
\* sections without index checks carry whether they are well-formed
\* statically; a function entry carries its type index.
TypeIndexes == 0..1
PlainEntries == [valid : BOOLEAN]
FunctionEntries == [type_index : TypeIndexes]

\* A code entry: whether BeginCode accepts it, its locals entries and the
\* instructions ReadExpression yields (each valid or not), and whether the
\* body ends in bytes ReadExpression cannot read.
BoolSeqs(n) == UNION {[1..k -> BOOLEAN] : k \in 0..n}
CodeEntries ==
  {c \in [begin_ok : BOOLEAN, locals : BoolSeqs(MaxBody),
          instrs : BoolSeqs(MaxBody), malformed : BOOLEAN] :
     Len(c.locals) + Len(c.instrs) <= MaxBody}

\* Validate(type_entry, ...): defines the type; false, with an error, when
\* the entry is invalid.
ValidateTypeEntry(e, ctx, pos) ==
  [ok |-> e.valid, context |-> [ctx EXCEPT !.types = @ + 1],
   errs |-> IF e.valid THEN <<>> ELSE <<Err(pos, "invalid type entry")>>]

\* Validate(function, ...): the type index must resolve.
ValidateFunction(e, ctx, pos) ==
  [ok |-> e.type_index < ctx.types, context |-> ctx,
   errs |-> IF e.type_index < ctx.types THEN <<>>
            ELSE <<Err(pos, "invalid type index")>>]

\* Validate of any other entry: false, with an error, when it is invalid.
ValidatePlain(e, ctx, pos) ==
  [ok |-> e.valid, context |-> ctx,
   errs |-> IF e.valid THEN <<>> ELSE <<Err(pos, "invalid entry")>>]

\* Tool::Visitor::FailUnless
FailUnlessMutOk(b) == "Ok"
FailUnless(b) == IF b THEN "Ok" ELSE "Fail"

\* What a callback hands back to the driver: its result, the context and
\* the errors it reported, and the validation steps it took.
Callback(v, steps) ==
  [result |-> FailUnless(v.ok), context |-> v.context, errs |-> v.errs,
   steps |-> steps]

\* Tool::Visitor::OnType .. OnDataCount, OnData
OnType(e, ctx, pos) == Callback(ValidateTypeEntry(e, ctx, pos), <<"Validate">>)
OnImport(e, ctx, pos) == Callback(ValidatePlain(e, ctx, pos), <<"Validate">>)
OnFunction(e, ctx, pos) == Callback(ValidateFunction(e, ctx, pos), <<"Validate">>)
OnTable(e, ctx, pos) == Callback(ValidatePlain(e, ctx, pos), <<"Validate">>)
OnMemory(e, ctx, pos) == Callback(ValidatePlain(e, ctx, pos), <<"Validate">>)
OnGlobal(e, ctx, pos) == Callback(ValidatePlain(e, ctx, pos), <<"Validate">>)
OnExport(e, ctx, pos) == Callback(ValidatePlain(e, ctx, pos), <<"Validate">>)
OnStart(e, ctx, pos) == Callback(ValidatePlain(e, ctx, pos), <<"Validate">>)
OnElement(e, ctx, pos) == Callback(ValidatePlain(e, ctx, pos), <<"Validate">>)
OnDataCount(e, ctx, pos) == Callback(ValidatePlain(e, ctx, pos), <<"Validate">>)
OnData(e, ctx, pos) == Callback(ValidatePlain(e, ctx, pos), <<"Validate">>)

\* The instruction loop of OnCode, from instruction i on: Validate each
\* instruction ReadExpression yields; the first invalid one returns Fail.
\* When the reader cannot read on it reports an error and the sequence
\* ends, which ends the loop.
RECURSIVE InstrLoop(_, _, _, _)
InstrLoop(code, i, pos, acc) ==
  IF i > Len(code.instrs)
  THEN [acc EXCEPT !.errs = @ \o (IF code.malformed
                                  THEN <<Err(pos, "malformed instruction")>>
                                  ELSE <<>>)]
  ELSE LET a == [acc EXCEPT !.steps = Append(@, <<"Instruction", i>>)]
       IN IF ~code.instrs[i]
          THEN [a EXCEPT !.result = "Fail",
                         !.errs = Append(@, Err(pos, "invalid instruction"))]
          ELSE InstrLoop(code, i + 1, pos, a)

\* The locals loop of OnCode, from locals entry i on.
RECURSIVE LocalsLoop(_, _, _, _)
LocalsLoopMutSkip(code, i, pos, acc) ==
  IF i > Len(code.locals)
  THEN InstrLoop(code, 1, pos, acc)
  ELSE LET a == [acc EXCEPT !.steps = Append(@, <<"Locals", i>>)]
       IN IF ~code.locals[i]
          THEN InstrLoop(code, 1, pos,
                         [a EXCEPT !.errs = Append(@, Err(pos, "invalid locals"))])
          ELSE LocalsLoop(code, i + 1, pos, a)
LocalsLoop(code, i, pos, acc) ==
  IF i > Len(code.locals)
  THEN InstrLoop(code, 1, pos, acc)
  ELSE LET a == [acc EXCEPT !.steps = Append(@, <<"Locals", i>>)]
       IN IF ~code.locals[i]
          THEN [a EXCEPT !.result = "Fail",
                         !.errs = Append(@, Err(pos, "invalid locals"))]
          ELSE LocalsLoop(code, i + 1, pos, a)

\* Tool::Visitor::OnCode
OnCode(code, ctx, pos) ==
  LET a == [result |-> "Ok", context |-> ctx, errs |-> <<>>,
            steps |-> <<<<"BeginCode", 0>>>>]
  IN IF ~code.begin_ok
     THEN [a EXCEPT !.result = "Fail",
                    !.errs = <<Err(pos, "unexpected code entry")>>]
     ELSE LocalsLoop(code, 1, pos, a)

\* ------------------------------------------------------ the text writer

\* A string is the sequence of its characters.
NL == "\n"
SP == " "

\* WriteContext as constructed: no separator, the indent "\n". `level`
\* counts the Indent calls that no Dedent has undone.
NewWriteContext == [separator |-> <<>>, indent |-> <<NL>>, level |-> 0]

\* The largest value of the type of std::string::size(), as far as the
\* integers at hand reach.
SizeMax == 2147483647

\* a - b in the arithmetic of an unsigned size: below zero it wraps round.
SizeSub(a, b) == IF a >= b THEN a - b ELSE SizeMax - (b - a) + 1

\* The writers of a composite run one after another, each on the state the
\* one before it left (out = Write(context, ..., out)). The(S) is the state
\* in the one-element set S: The({F(x) : x \in {w}}) is the state F leaves,
\* the state w before it being computed first.
The(S) == CHOOSE r \in S : TRUE

\* The state the writers work on: the context's fields, the output, and
\* whether an exception is on its way out of the call; own says that the
\* separator was set by a Newline of this call, mis that a newline
\* separator set in this call was flushed when it was not the indent.
WriterState(c, o) ==
  [separator |-> c.separator, indent |-> c.indent, level |-> c.level,
   out |-> o, thrown |-> FALSE, own |-> FALSE, mis |-> FALSE]

\* WriteContext::ClearSeparator, Space, Newline
ClearSeparator(w) == IF w.thrown THEN w ELSE [w EXCEPT !.separator = <<>>]
Space(w) == IF w.thrown THEN w ELSE [w EXCEPT !.separator = <<SP>>]
Newline(w) ==
  IF w.thrown THEN w ELSE [w EXCEPT !.separator = w.indent, !.own = TRUE]

\* WriteContext::Indent: indent += "  "
IndentMutOneSpace(w) ==
  IF w.thrown THEN w
  ELSE [w EXCEPT !.indent = @ \o <<SP>>, !.level = @ + 1]
Indent(w) ==
  IF w.thrown THEN w
  ELSE [w EXCEPT !.indent = @ \o <<SP, SP>>, !.level = @ + 1]

\* WriteContext::Dedent: indent.erase(indent.size() - 2). erase(pos) keeps
\* the first pos characters, and throws std::out_of_range, leaving the
\* string as it is, when pos is beyond the size.
Dedent(w) ==
  IF w.thrown THEN w
  ELSE LET pos == SizeSub(Len(w.indent), 2)
       IN IF pos > Len(w.indent)
          THEN [w EXCEPT !.thrown = TRUE]
          ELSE [w EXCEPT !.indent = SubSeq(@, 1, pos), !.level = @ - 1]

\* WriteRaw: the characters go to the output.
WriteRaw(w, value) == IF w.thrown THEN w ELSE [w EXCEPT !.out = @ \o value]

\* WriteSeparator
WriteSeparatorMutDrop(w) == ClearSeparator(w)
WriteSeparator(w) ==
  LET stale_newline ==
        /\ ~w.thrown /\ w.own
        /\ w.separator # <<>> /\ w.separator[1] = NL
        /\ w.separator # w.indent
  IN ClearSeparator(WriteRaw([w EXCEPT !.mis = @ \/ stale_newline], w.separator))

\* WriteFormat: value is what format() makes of the value.
WriteFormat(w, value) ==
  The({Space(WriteRaw(WriteSeparator(x), value)) : x \in {w}})

\* WriteLpar(context, out)
WriteLpar(w) == The({WriteRaw(WriteSeparator(x), <<"(">>) : x \in {w}})

\* WriteLpar(context, name, out)
WriteLparName(w, name) == The({Space(WriteRaw(WriteLpar(x), name)) : x \in {w}})

\* WriteRpar
WriteRparMutFlush(w) == Space(WriteRaw(WriteSeparator(w), <<")">>))
WriteRpar(w) == The({Space(WriteRaw(ClearSeparator(x), <<")">>)) : x \in {w}})

\* Write(context, string_view, out)
WriteString(w, value) ==
  The({Space(WriteRaw(WriteSeparator(x), value)) : x \in {w}})

\* The strings and the numbers written in this model, and format("{}")
\* of a number below ten.
Tokens == {<<"x">>, <<"$", "f">>}
Numbers == {7}
Format(n) == <<ToString(n)>>

\* Write(MemArgImmediate): offset= and align=, each with its value right
\* after it, each only when present. In this model the offset is 1 and
\* the alignment 2.
OffsetEq == <<"o", "f", "f", "s", "e", "t", "=">>
AlignEq == <<"a", "l", "i", "g", "n", "=">>
WriteMemArgMutSpace(w, m) ==
  The({IF m.align
       THEN WriteString(WriteString(a, AlignEq), Format(2))
       ELSE a :
       a \in {IF m.offset
              THEN WriteString(WriteString(w, OffsetEq), Format(1))
              ELSE w}})
WriteMemArg(w, m) ==
  The({IF m.align
       THEN WriteString(ClearSeparator(WriteString(a, AlignEq)), Format(2))
       ELSE a :
       a \in {IF m.offset
              THEN WriteString(ClearSeparator(WriteString(w, OffsetEq)), Format(1))
              ELSE w}})

\* The instructions written in this model: the opcode, and the immediate
\* by its kind. block holds a BlockImmediate (here without label and
\* type), let a LetImmediate with its locals.
NoImmediate == [kind |-> "none"]
BlockImmediate == [kind |-> "block"]
LetImmediate == [kind |-> "let", locals |-> <<"i32">>]
MemArgs == {[kind |-> "memarg", offset |-> o, align |-> a] : o, a \in BOOLEAN}
Instructions ==
  {[opcode |-> "nop", immediate |-> NoImmediate],
   [opcode |-> "block", immediate |-> BlockImmediate],
   [opcode |-> "let", immediate |-> LetImmediate],
   [opcode |-> "else", immediate |-> NoImmediate],
   [opcode |-> "end", immediate |-> NoImmediate]}
  \cup {[opcode |-> "load", immediate |-> m] : m \in MemArgs}

\* format("{}", Opcode)
OpcodeText(opcode) ==
  CASE opcode = "nop" -> <<"n", "o", "p">>
    [] opcode = "block" -> <<"b", "l", "o", "c", "k">>
    [] opcode = "let" -> <<"l", "e", "t">>
    [] opcode = "else" -> <<"e", "l", "s", "e">>
    [] opcode = "end" -> <<"e", "n", "d">>
    [] opcode = "load" -> <<"i", "3", "2", ".", "l", "o", "a", "d">>
    [] opcode = "const" -> <<"i", "3", "2", ".", "c", "o", "n", "s", "t">>
    [] opcode = "fconst" -> <<"f", "3", "2", ".", "c", "o", "n", "s", "t">>
    [] opcode = "br" -> <<"b", "r">>
    [] opcode = "br_on_exn" -> <<"b", "r", "_", "o", "n", "_", "e", "x", "n">>
    [] opcode = "br_table" -> <<"b", "r", "_", "t", "a", "b", "l", "e">>
    [] opcode = "call_indirect" ->
         <<"c", "a", "l", "l", "_", "i", "n", "d", "i", "r", "e", "c", "t">>
    [] opcode = "copy" ->
         <<"m", "e", "m", "o", "r", "y", ".", "c", "o", "p", "y">>
    [] opcode = "init" ->
         <<"m", "e", "m", "o", "r", "y", ".", "i", "n", "i", "t">>
    [] opcode = "ref.null" -> <<"r", "e", "f", ".", "n", "u", "l", "l">>
    [] opcode = "select" -> <<"s", "e", "l", "e", "c", "t">>

\* Write(Opcode)
WriteOpcode(w, opcode) == WriteFormat(w, OpcodeText(opcode))

\* ------------------------------------------------- the token writers

\* NatToStr and IntToStr in base Decimal, the base the context starts
\* with and no writer changes, for a number below ten.
NatToStr(n) == Format(n)
IntToStr(n) == IF n < 0 THEN <<"-">> \o Format(0 - n) ELSE Format(n)

\* The floats written in this model, as a whole part and tenths, and
\* FloatToStr of one.
Floats == {[whole |-> 1, tenths |-> 5]}
FloatToStr(f) == Format(f.whole) \o <<".">> \o Format(f.tenths)

\* WriteNat, and Write of an integral and of a floating-point value
WriteNat(w, n) == WriteString(w, NatToStr(n))
WriteInt(w, n) == WriteString(w, IntToStr(n))
WriteFloat(w, f) == WriteString(w, FloatToStr(f))

\* Var: an index or a name. Write(Var) writes the one it holds.
Vars == {[is_index |-> TRUE, index |-> 0],
         [is_index |-> FALSE, name |-> <<"$", "f">>]}
Idx(n) == [is_index |-> TRUE, index |-> n]
WriteVar(w, var) ==
  IF var.is_index THEN WriteNat(w, var.index) ELSE WriteString(w, var.name)

\* ValueType and format("{}", ValueType); Write(ValueType)
ValueTypes == {"i32", "f32"}
ValueTypeText(vt) ==
  CASE vt = "i32" -> <<"i", "3", "2">>
    [] vt = "f32" -> <<"f", "3", "2">>
WriteValueType(w, vt) == WriteFormat(w, ValueTypeText(vt))

\* ------------------------------------------------ the module item writers

\* Write(optional<T>) for a bind var: the name when there is one.
WriteOptName(w, name) == IF name = None THEN w ELSE WriteString(w, name[1])

\* Write(Text): the text as it stands, quotes included.
QUOTE == "\""
TextOf(c) == <<QUOTE, c, QUOTE>>
WriteText(w, text) == WriteString(w, text)

\* Write(InlineImport) and Write(InlineExport)
WriteInlineImport(w, import) ==
  WriteRpar(WriteText(WriteText(
    WriteLparName(w, <<"i", "m", "p", "o", "r", "t">>),
    import.module), import.name))
WriteInlineExport(w, export) ==
  WriteRpar(WriteText(WriteLparName(w, <<"e", "x", "p", "o", "r", "t">>),
                      export.name))

\* Write(InlineExportList): WriteVector, from export i on.
RECURSIVE WriteInlineExportsFrom(_, _, _)
WriteInlineExportsFrom(w, exports, i) ==
  IF i > Len(exports) THEN w
  ELSE The({WriteInlineExportsFrom(x, exports, i + 1) :
              x \in {WriteInlineExport(w, exports[i])}})
WriteInlineExports(w, exports) == WriteInlineExportsFrom(w, exports, 1)

\* WriteTypeUse: (type var) when there is a type use.
WriteTypeUse(w, type_use) ==
  IF type_use = None THEN w
  ELSE WriteRpar(WriteVar(WriteLparName(w, <<"t", "y", "p", "e">>), type_use[1]))

\* Write(ValueTypeList): WriteVector, from value type i on.
RECURSIVE WriteValueTypesFrom(_, _, _)
WriteValueTypesFrom(w, values, i) ==
  IF i > Len(values) THEN w
  ELSE The({WriteValueTypesFrom(x, values, i + 1) :
              x \in {WriteValueType(w, values[i])}})
WriteValueTypes(w, values) == WriteValueTypesFrom(w, values, 1)

\* Write(ValueTypeList, name): (name types) unless the list is empty.
WriteValueTypesNamed(w, values, name) ==
  IF values = <<>> THEN w
  ELSE WriteRpar(WriteValueTypes(WriteLparName(w, name), values))

\* Write(BoundValueTypeList, prefix), from value i on: a named value gets
\* parentheses of its own, unnamed ones in a row share one pair.
RECURSIVE WriteBoundValueTypesFrom(_, _, _, _, _)
WriteBoundValueTypesFrom(w, values, prefix, i, prev_has_name) ==
  IF i > Len(values)
  THEN IF values # <<>> THEN WriteRpar(w) ELSE w
  ELSE LET first == (i = 1)
           has_name == values[i].name # None
       IN The({WriteBoundValueTypesFrom(d, values, prefix, i + 1, has_name) :
               d \in {The({WriteValueType(c, values[i].type) :
               c \in {The({IF has_name THEN WriteOptName(b, values[i].name) ELSE b :
               b \in {The({IF has_name \/ prev_has_name \/ first
                           THEN WriteLparName(a, prefix) ELSE a :
               a \in {IF (has_name \/ prev_has_name) /\ ~first
                      THEN WriteRpar(w) ELSE w}})}})}})}})
WriteBoundValueTypesMutOneGroup(w, values, prefix) ==
  WriteValueTypesNamed(w, [i \in 1..Len(values) |-> values[i].type], prefix)
WriteBoundValueTypes(w, values, prefix) ==
  WriteBoundValueTypesFrom(w, values, prefix, 1, FALSE)

KwParam == <<"p", "a", "r", "a", "m">>
KwResult == <<"r", "e", "s", "u", "l", "t">>
KwLocal == <<"l", "o", "c", "a", "l">>

\* Write(BoundFunctionType) and Write(FunctionType)
WriteBoundFunctionType(w, type) ==
  WriteValueTypesNamed(WriteBoundValueTypes(w, type.params, KwParam),
                       type.results, KwResult)
WriteFunctionType(w, type) ==
  WriteValueTypesNamed(WriteValueTypesNamed(w, type.params, KwParam),
                       type.results, KwResult)

\* Write(FunctionTypeUse)
WriteFunctionTypeUse(w, value) ==
  WriteFunctionType(WriteTypeUse(w, value.type_use), value.type)

\* Write(Limits): min, max when there is one, shared when shared.
WriteLimits(w, limits) ==
  The({IF limits.shared
       THEN WriteString(b, <<"s", "h", "a", "r", "e", "d">>) ELSE b :
       b \in {The({IF limits.max # None THEN WriteInt(a, limits.max[1]) ELSE a :
       a \in {WriteInt(w, limits.min)}})}})

\* ReferenceType and format("{}", ReferenceType); Write(ReferenceType)
ReferenceTypes == {"funcref"}
ReferenceTypeText(rt) ==
  CASE rt = "funcref" -> <<"f", "u", "n", "c", "r", "e", "f">>
WriteReferenceType(w, rt) == WriteFormat(w, ReferenceTypeText(rt))

\* Write(TableType), Write(MemoryType), Write(GlobalType), Write(EventType)
WriteTableType(w, type) ==
  WriteFormat(WriteLimits(w, type.limits), ReferenceTypeText(type.elemtype))
WriteMemoryType(w, type) == WriteLimits(w, type.limits)
WriteGlobalType(w, type) ==
  The({IF type.mut THEN WriteRpar(b) ELSE b :
       b \in {The({WriteValueType(a, type.valtype) :
       a \in {IF type.mut THEN WriteLparName(w, <<"m", "u", "t">>) ELSE w}})}})
WriteEventType(w, type) == WriteFunctionTypeUse(w, type.type)

\* ExternalKind and format("{}", ExternalKind); Write(ExternalKind)
ExternalKinds == {"Function", "Table"}
ExternalKindText(kind) ==
  CASE kind = "Function" -> <<"f", "u", "n", "c">>
    [] kind = "Table" -> <<"t", "a", "b", "l", "e">>
WriteExternalKind(w, kind) == WriteFormat(w, ExternalKindText(kind))

\* Write(VarList): WriteVector, from var i on.
RECURSIVE WriteVarsFrom(_, _, _)
WriteVarsFrom(w, vars_, i) ==
  IF i > Len(vars_) THEN w
  ELSE The({WriteVarsFrom(x, vars_, i + 1) : x \in {WriteVar(w, vars_[i])}})
WriteVarList(w, vars_) == WriteVarsFrom(w, vars_, 1)

\* Write(Instruction): the opcode, then the immediate by the case of its
\* variant index. The switch has the cases 0 to 17 and no default: there is
\* none for a LetImmediate, which is left unwritten.
WriteInstruction(w, instr) ==
  The({CASE instr.immediate.kind = "none" -> a
         [] instr.immediate.kind = "s32" -> WriteInt(a, instr.immediate.value)
         [] instr.immediate.kind = "f32" -> WriteFloat(a, instr.immediate.value)
         [] instr.immediate.kind = "var" -> WriteVar(a, instr.immediate.var)
         [] instr.immediate.kind = "block" -> a
         [] instr.immediate.kind = "br_on_exn" ->
              WriteVar(WriteVar(a, instr.immediate.target), instr.immediate.event)
         [] instr.immediate.kind = "br_table" ->
              WriteVar(WriteVarList(a, instr.immediate.targets),
                       instr.immediate.default_target)
         [] instr.immediate.kind = "call_indirect" ->
              WriteFunctionTypeUse(
                IF instr.immediate.table # None
                THEN WriteVar(a, instr.immediate.table[1]) ELSE a,
                instr.immediate.type)
         [] instr.immediate.kind = "copy" ->
              The({IF instr.immediate.src # None
                   THEN WriteVar(d, instr.immediate.src[1]) ELSE d :
                   d \in {IF instr.immediate.dst # None
                          THEN WriteVar(a, instr.immediate.dst[1]) ELSE a}})
         [] instr.immediate.kind = "init" ->
              WriteVar(IF instr.immediate.dst # None
                       THEN WriteVar(a, instr.immediate.dst[1]) ELSE a,
                       instr.immediate.segment)
         [] instr.immediate.kind = "memarg" -> WriteMemArg(a, instr.immediate)
         [] instr.immediate.kind = "reftype" ->
              WriteReferenceType(a, instr.immediate.type)
         [] instr.immediate.kind = "select" ->
              WriteValueTypes(a, instr.immediate.types)
         [] OTHER -> a :
       a \in {WriteOpcode(w, instr.opcode)}})

\* WriteWithNewlines, from instruction i of the list on.
RECURSIVE WriteWithNewlinesFrom(_, _, _)
WriteWithNewlinesFrom(w, values, i) ==
  IF i > Len(values) \/ w.thrown THEN w
  ELSE The({WriteWithNewlinesFrom(Newline(c), values, i + 1) :
            c \in {The({IF values[i].immediate.kind = "block"
                           \/ values[i].opcode \in {"else", "catch"}
                        THEN Indent(b) ELSE b :
            b \in {The({WriteInstruction(a, values[i]) :
            a \in {IF values[i].opcode \in {"end", "else", "catch"}
                   THEN Newline(Dedent(w)) ELSE w}})}})}})
WriteWithNewlines(w, values) == WriteWithNewlinesFrom(w, values, 1)

\* Write(InstructionList): WriteVector, from instruction i on.
RECURSIVE WriteInstructionsFrom(_, _, _)
WriteInstructionsFrom(w, values, i) ==
  IF i > Len(values) THEN w
  ELSE The({WriteInstructionsFrom(x, values, i + 1) :
              x \in {WriteInstruction(w, values[i])}})
WriteInstructionList(w, values) == WriteInstructionsFrom(w, values, 1)

\* Write(ElementExpressionList): every instruction of every expression in
\* parentheses, with a space after it. The list is given here with its
\* expressions' instructions in a row.
RECURSIVE WriteElementExpressionsFrom(_, _, _)
WriteElementExpressionsFrom(w, instrs, i) ==
  IF i > Len(instrs) THEN w
  ELSE The({WriteElementExpressionsFrom(x, instrs, i + 1) :
              x \in {Space(WriteRpar(WriteInstruction(WriteLpar(w), instrs[i])))}})
WriteElementExpressionList(w, instrs) == WriteElementExpressionsFrom(w, instrs, 1)

\* Write(ElementListWithExpressions), Write(ElementListWithVars) and
\* Write(ElementList)
WriteElementListWithExpressions(w, value) ==
  WriteElementExpressionList(WriteReferenceType(w, value.elemtype), value.list)
WriteElementListWithVars(w, value) ==
  WriteVarList(WriteExternalKind(w, value.kind), value.list)
WriteElementList(w, value) ==
  IF value.with_vars THEN WriteElementListWithVars(w, value)
  ELSE WriteElementListWithExpressions(w, value)

KwFunc == <<"f", "u", "n", "c">>
KwTable == <<"t", "a", "b", "l", "e">>
KwMemory == <<"m", "e", "m", "o", "r", "y">>
KwGlobal == <<"g", "l", "o", "b", "a", "l">>
KwEvent == <<"e", "v", "e", "n", "t">>
KwElem == <<"e", "l", "e", "m">>
KwData == <<"d", "a", "t", "a">>
KwOffset == <<"o", "f", "f", "s", "e", "t">>
KwDeclare == <<"d", "e", "c", "l", "a", "r", "e">>

\* Write(Function)
WriteFunctionMutImportFirst(w, value) ==
  The({Newline(WriteRpar(h)) :
       h \in {The({IF value.import = None
                   THEN Dedent(WriteWithNewlines(
                          The({Newline(WriteBoundValueTypes(Newline(Indent(y)),
                                                            value.locals, KwLocal)) :
                               y \in {f}}),
                          value.instructions))
                   ELSE f :
       f \in {The({WriteBoundFunctionType(d, value.desc.type) :
       d \in {The({WriteTypeUse(c, value.desc.type_use) :
       c \in {The({WriteInlineExports(b, value.exports) :
       b \in {The({IF value.import # None
                   THEN WriteInlineImport(a, value.import[1]) ELSE a :
       a \in {WriteOptName(WriteLparName(w, KwFunc), value.desc.name)}})}})}})}})}})}})
WriteFunction(w, value) ==
  The({Newline(WriteRpar(h)) :
       h \in {The({IF value.import = None
                   THEN Dedent(WriteWithNewlines(
                          The({Newline(WriteBoundValueTypes(Newline(Indent(y)),
                                                            value.locals, KwLocal)) :
                               y \in {f}}),
                          value.instructions))
                   ELSE f :
       f \in {The({WriteBoundFunctionType(d, value.desc.type) :
       d \in {The({WriteTypeUse(c, value.desc.type_use) :
       c \in {The({IF value.import # None
                   THEN WriteInlineImport(b, value.import[1]) ELSE b :
       b \in {The({WriteInlineExports(a, value.exports) :
       a \in {WriteOptName(WriteLparName(w, KwFunc), value.desc.name)}})}})}})}})}})}})

\* Write(optional<TextList>): WriteVector, from text i on.
RECURSIVE WriteTextsFrom(_, _, _)
WriteTextsFrom(w, texts, i) ==
  IF i > Len(texts) THEN w
  ELSE The({WriteTextsFrom(x, texts, i + 1) : x \in {WriteText(w, texts[i])}})
WriteOptTextList(w, texts) ==
  IF texts = None THEN w ELSE WriteTextsFrom(w, texts[1], 1)

\* Write(Table)
WriteTableMutLimits(w, value) ==
  The({WriteRpar(d) :
       d \in {The({IF value.import # None
                   THEN WriteTableType(WriteInlineImport(c, value.import[1]),
                                       value.desc.type)
                   ELSE IF value.elements # None
                   THEN WriteRpar(The({IF value.elements[1].with_vars
                                       THEN WriteVarList(f, value.elements[1].list)
                                       ELSE WriteElementExpressionList(
                                              f, value.elements[1].list) :
                                       f \in {WriteLparName(WriteTableType(c, value.desc.type), KwElem)}}))
                   ELSE WriteTableType(c, value.desc.type) :
       c \in {The({WriteInlineExports(b, value.exports) :
       b \in {WriteOptName(WriteLparName(w, KwTable), value.desc.name)}})}})}})
WriteTable(w, value) ==
  The({WriteRpar(d) :
       d \in {The({IF value.import # None
                   THEN WriteTableType(WriteInlineImport(c, value.import[1]),
                                       value.desc.type)
                   ELSE IF value.elements # None
                   THEN WriteRpar(The({IF value.elements[1].with_vars
                                       THEN WriteVarList(f, value.elements[1].list)
                                       ELSE WriteElementExpressionList(
                                              f, value.elements[1].list) :
                                       f \in {WriteLparName(WriteReferenceType(c, value.desc.type.elemtype), KwElem)}}))
                   ELSE WriteTableType(c, value.desc.type) :
       c \in {The({WriteInlineExports(b, value.exports) :
       b \in {WriteOptName(WriteLparName(w, KwTable), value.desc.name)}})}})}})

\* Write(Memory)
WriteMemory(w, value) ==
  The({WriteRpar(d) :
       d \in {The({IF value.import # None
                   THEN WriteMemoryType(WriteInlineImport(c, value.import[1]),
                                        value.desc.type)
                   ELSE IF value.data # None
                   THEN WriteRpar(WriteOptTextList(WriteLparName(c, KwData), value.data))
                   ELSE WriteMemoryType(c, value.desc.type) :
       c \in {The({WriteInlineExports(b, value.exports) :
       b \in {WriteOptName(WriteLparName(w, KwMemory), value.desc.name)}})}})}})

\* Write(Global); the initial value is a ConstantExpression, written as
\* its instruction list.
WriteGlobal(w, value) ==
  The({WriteRpar(d) :
       d \in {The({IF value.import # None
                   THEN WriteGlobalType(WriteInlineImport(c, value.import[1]),
                                        value.desc.type)
                   ELSE WriteInstructionList(WriteGlobalType(c, value.desc.type),
                                             value.init) :
       c \in {The({WriteInlineExports(b, value.exports) :
       b \in {WriteOptName(WriteLparName(w, KwGlobal), value.desc.name)}})}})}})

\* Write(Event)
WriteEvent(w, value) ==
  The({WriteRpar(d) :
       d \in {The({WriteEventType(IF value.import # None
                                  THEN WriteInlineImport(c, value.import[1])
                                  ELSE c,
                                  value.desc.type) :
       c \in {The({WriteInlineExports(b, value.exports) :
       b \in {WriteOptName(WriteLparName(w, KwEvent), value.desc.name)}})}})}})

\* Write(ElementSegment): whether the kind of an active segment's var list
\* is written.
WritesKindMutNoName(value) ==
  value.elements.kind # "Function" \/ value.table # None
WritesKind(value) ==
  value.elements.kind # "Function" \/ value.table # None \/ value.name # None

\* Write(ElementSegment)
WriteElementSegment(w, value) ==
  The({WriteRpar(c) :
       c \in {The({CASE value.type = "Active" ->
                          The({IF value.elements.with_vars
                               THEN WriteVarList(
                                      IF WritesKind(value)
                                      THEN WriteExternalKind(o, value.elements.kind)
                                      ELSE o,
                                      value.elements.list)
                               ELSE WriteElementListWithExpressions(o, value.elements) :
                          o \in {The({IF value.offset # None
                                      THEN WriteRpar(WriteInstructionList(
                                             WriteLparName(t, KwOffset), value.offset[1]))
                                      ELSE t :
                          t \in {IF value.table # None
                                 THEN WriteRpar(WriteVar(WriteLparName(b, KwTable),
                                                         value.table[1]))
                                 ELSE b}})}})
                     [] value.type = "Passive" -> WriteElementList(b, value.elements)
                     [] value.type = "Declared" ->
                          WriteElementList(WriteString(b, KwDeclare), value.elements) :
       b \in {WriteOptName(WriteLparName(w, KwElem), value.name)}})}})

\* ------------------------------------------------------ the readers

\* The sections the lazy section reader yields: a custom section, or a
\* known section with its id.
CustomSection == [is_known |-> FALSE, id |-> "Custom"]
Sections == {CustomSection} \cup {[is_known |-> TRUE, id |-> i] : i \in SectionIds}

\* What ReadModule leaves in LazyModule: whether the magic and the version
\* were read, and the error it reports for each that was not.
Modules == [magic : BOOLEAN, version : BOOLEAN]
ReadModuleErrors(m) ==
  (IF m.magic THEN <<>> ELSE <<Err(0, "bad magic")>>)
  \o (IF m.version THEN <<>> ELSE <<Err(0, "bad version")>>)

\* The position of what the readers yield next (the place in the file,
\* counted in items read).
Pos == Len(events) + 1

\* The sections and entries among what the readers have yielded.
Items(evs) == Cardinality({i \in 1..Len(evs) : evs[i].kind \in {"section", "entry"}})

\* ----------------------------------------------------- the visitor driver

\* Whether the driver reads entries for a known section: it does for the
\* sections it has a reader for.
HasEntries(section) == section.is_known /\ section.id \in KnownIds

\* The entry callback the driver invokes for an entry of section id.
OnEntry(id, e, ctx, pos) ==
  CASE id = "Type" -> OnType(e, ctx, pos)
    [] id = "Import" -> OnImport(e, ctx, pos)
    [] id = "Function" -> OnFunction(e, ctx, pos)
    [] id = "Table" -> OnTable(e, ctx, pos)
    [] id = "Memory" -> OnMemory(e, ctx, pos)
    [] id = "Global" -> OnGlobal(e, ctx, pos)
    [] id = "Export" -> OnExport(e, ctx, pos)
    [] id = "Start" -> OnStart(e, ctx, pos)
    [] id = "Element" -> OnElement(e, ctx, pos)
    [] id = "DataCount" -> OnDataCount(e, ctx, pos)
    [] id = "Code" -> OnCode(e, ctx, pos)
    [] id = "Data" -> OnData(e, ctx, pos)

\* visit::Visit over what the readers yield, from item i on: OnSection for
\* each section, the entry callback for each entry of a known section; the
\* first Fail ends the traversal with Fail, the end of the sections (or
\* bytes the section reader cannot read) with Ok.
RECURSIVE Visit(_, _, _, _, _)
Visit(evs, i, last, ctx, c) ==
  IF i > Len(evs) THEN "Ok"
  ELSE LET ev == evs[i]
       IN CASE ev.kind = "section" ->
                 LET r == OnSection(last, ev.section, i)
                 IN IF r.result = "Fail" THEN "Fail"
                    ELSE Visit(evs, i + 1, r.last, ctx,
                               IF HasEntries(ev.section)
                               THEN Some(ev.section.id) ELSE None)
            [] ev.kind = "entry" ->
                 LET r == OnEntry(c[1], ev.entry, ctx, i)
                 IN IF r.result = "Fail" THEN "Fail"
                    ELSE Visit(evs, i + 1, last, r.context, c)
            [] ev.kind \in {"end_section", "malformed_entry"} ->
                 Visit(evs, i + 1, last, ctx, None)
            [] OTHER -> "Ok"

\* --------------------------------------------------------------- the tool

\* Tool::Run's test of the header: module.magic && module.version
HeaderReadMutMagic(m) == m.magic
HeaderRead(m) == m.magic /\ m.version

\* The Visitor's last_section_id as its constructor leaves it, given what a
\* previous visitor left: the optional's default, nullopt.
VisitorLastMutKeep(previous) == previous
VisitorLast(previous) == None

\* Tool::context as Tool's constructor leaves it, given what a previous
\* tool left: a fresh Context.
ToolContextMutKeep(previous) == previous
ToolContext(previous) == NewContext

\* Tool::Run of a whole file, as a function of what the readers give for it.
Run(m, evs) ==
  IF ~HeaderRead(m) THEN FALSE
  ELSE Visit(evs, 1, VisitorLast(None), ToolContext(NewContext), None) = "Ok"

\* ok &= tool.Run()
AndAssignMutAssign(a, b) == b
AndAssign(a, b) == a /\ b

\* ok ? 0 : 1
ExitCodeOf(b) == IF b THEN 0 ELSE 1

\* PrintHelp: prints the usage and calls exit(errcode).
PrintHelp(errcode) ==
  /\ exitcode' = Some(errcode)
  /\ pc' = "exited"

\* Tool::Run returns r to Main's loop: ok &= r, and the loop goes on. When
\* an entry's callback stopped the traversal, the rest of the file stays
\* unread; u says whether it holds another invalid entry.
Returns(r, u) ==
  /\ ok' = AndAssign(ok, r)
  /\ allgood' = (allgood /\ r)
  /\ lastfile' = IF r THEN "ok" ELSE "fail"
  /\ unread' = u
  /\ UNCHANGED stale
  /\ pc' = "returned"

Init ==
  /\ pc = "start"
  /\ args = [help |-> FALSE, empty |-> TRUE, filenames |-> 0]
  /\ findex = 0
  /\ ok = TRUE
  /\ exitcode = None
  /\ module = [magic |-> FALSE, version |-> FALSE]
  /\ errors = <<>>
  /\ context = NewContext
  /\ last_section_id = None
  /\ cur = None
  /\ events = <<>>
  /\ calls = <<>>
  /\ allgood = TRUE
  /\ lastfile = "none"
  /\ unread = FALSE
  /\ stale = FALSE
  /\ wctx = NewWriteContext
  /\ out = <<>>
  /\ thrown = FALSE
  /\ tail = ""
  /\ lastcall = ""
  /\ lastarg = None
  /\ bytes = <<>>
  /\ value_stack = <<>>
  /\ control_stack = <<>>
  /\ valid = TRUE
  /\ popped = None
  /\ func_type = None
  /\ read_result = None
  /\ misflushed = FALSE

\* Main up to its loop: the arguments are parsed (--help prints the help
\* and exits with 0), no filename prints the help and exits with 1.
MainStart ==
  /\ pc = "start"
  /\ \E h \in BOOLEAN, n \in 0..MaxFiles :
       /\ args' = [help |-> h, empty |-> (n = 0), filenames |-> n]
       /\ IF h THEN PrintHelp(0) /\ UNCHANGED ok
          ELSE IF n = 0 THEN PrintHelp(1) /\ UNCHANGED ok
          ELSE pc' = "loop" /\ ok' = TRUE /\ UNCHANGED exitcode
  /\ UNCHANGED <<findex, module, errors, context, last_section_id, cur,
                 events, calls, allgood, lastfile, unread, stale>>
  /\ UNCHANGED writevars

\* Whether the loop of Main has a filename left to take: it goes through
\* the filenames given, in their order, and findex counts those taken.
MoreFilesMutStopOnFail == findex < args.filenames /\ ok
MoreFiles == findex < args.filenames

\* One turn of Main's loop for a file ReadFile cannot read.
ReadFileFails ==
  /\ pc = "loop"
  /\ MoreFiles
  /\ findex' = findex + 1
  /\ ok' = FALSE
  /\ allgood' = FALSE
  /\ UNCHANGED <<pc, args, exitcode, module, errors, context,
                 last_section_id, cur, events, calls, lastfile, unread, stale>>
  /\ UNCHANGED writevars

\* One turn of Main's loop up to the constructed Tool: ReadFile gives the
\* bytes, ReadModule reads the header.
ToolCtor ==
  /\ pc = "loop"
  /\ MoreFiles
  /\ findex' = findex + 1
  /\ \E m \in Modules :
       /\ module' = m
       /\ errors' = ReadModuleErrors(m)
  /\ context' = ToolContext(context)
  /\ stale' = (context # NewContext /\ last_section_id # None)
  /\ events' = <<>>
  /\ calls' = <<>>
  /\ cur' = None
  /\ pc' = "tool"
  /\ UNCHANGED <<args, ok, exitcode, last_section_id, allgood, lastfile, unread>>
  /\ UNCHANGED writevars

\* Tool::Run up to the traversal: false when the header was not read,
\* else the Visitor is constructed and visit::Visit begins.
RunBegin ==
  /\ pc = "tool"
  /\ IF ~HeaderRead(module)
     THEN /\ Returns(FALSE, FALSE)
          /\ UNCHANGED last_section_id
     ELSE /\ last_section_id' = VisitorLast(last_section_id)
          /\ pc' = "sections"
          /\ UNCHANGED <<ok, allgood, lastfile, unread, stale>>
  /\ UNCHANGED <<args, findex, exitcode, module, errors, context, cur,
                 events, calls>>
  /\ UNCHANGED writevars

\* The driver reads the next section and calls OnSection.
VisitOnSection ==
  /\ pc = "sections"
  /\ Items(events) < MaxItems
  /\ \E section \in Sections :
       LET r == OnSection(last_section_id, section, Pos)
       IN /\ events' = Append(events, [kind |-> "section", section |-> section])
          /\ calls' = Append(calls, [cb |-> "OnSection", result |-> r.result,
                                     steps |-> <<>>])
          /\ errors' = errors \o r.errs
          /\ last_section_id' = r.last
          /\ IF r.result = "Fail"
             THEN /\ Returns(FALSE, FALSE)
                  /\ UNCHANGED cur
             ELSE /\ cur' = IF HasEntries(section) THEN Some(section.id) ELSE None
                  /\ pc' = IF HasEntries(section) THEN "entries" ELSE "sections"
                  /\ UNCHANGED <<ok, allgood, lastfile, unread, stale>>
  /\ UNCHANGED <<args, findex, exitcode, module, context>>
  /\ UNCHANGED writevars

\* The section reader is at the end of the file: Visit returns Ok.
SectionsEnd ==
  /\ pc = "sections"
  /\ events' = Append(events, [kind |-> "end"])
  /\ Returns(TRUE, FALSE)
  /\ UNCHANGED <<args, findex, exitcode, module, errors, context,
                 last_section_id, cur, calls>>
  /\ UNCHANGED writevars

\* The section reader cannot read on: it reports the error and its
\* sequence ends, so Visit returns Ok.
SectionsMalformed ==
  /\ pc = "sections"
  /\ events' = Append(events, [kind |-> "malformed_section"])
  /\ errors' = Append(errors, Err(Pos, "malformed section"))
  /\ Returns(TRUE, FALSE)
  /\ UNCHANGED <<args, findex, exitcode, module, context,
                 last_section_id, cur, calls>>
  /\ UNCHANGED writevars

\* The driver reads the next entry e of the current section and calls its
\* callback, which gives r.
Deliver(cb, e, r) ==
  /\ events' = Append(events, [kind |-> "entry", entry |-> e])
  /\ calls' = Append(calls, [cb |-> cb, result |-> r.result, steps |-> r.steps])
  /\ errors' = errors \o r.errs
  /\ context' = r.context
  /\ IF r.result = "Fail"
     THEN \E u \in BOOLEAN : Returns(FALSE, u)
     ELSE UNCHANGED <<pc, ok, allgood, lastfile, unread, stale>>
  /\ UNCHANGED <<args, findex, exitcode, module, last_section_id, cur>>
  /\ UNCHANGED writevars

\* Whether the entry reader of section id may yield one more entry.
AtEntry(id) ==
  /\ pc = "entries"
  /\ cur = Some(id)
  /\ Items(events) < MaxItems

VisitOnType ==
  AtEntry("Type") /\ \E e \in PlainEntries : Deliver("OnType", e, OnType(e, context, Pos))
VisitOnImport ==
  AtEntry("Import") /\ \E e \in PlainEntries : Deliver("OnImport", e, OnImport(e, context, Pos))
VisitOnFunction ==
  AtEntry("Function") /\ \E e \in FunctionEntries : Deliver("OnFunction", e, OnFunction(e, context, Pos))
VisitOnTable ==
  AtEntry("Table") /\ \E e \in PlainEntries : Deliver("OnTable", e, OnTable(e, context, Pos))
VisitOnMemory ==
  AtEntry("Memory") /\ \E e \in PlainEntries : Deliver("OnMemory", e, OnMemory(e, context, Pos))
VisitOnGlobal ==
  AtEntry("Global") /\ \E e \in PlainEntries : Deliver("OnGlobal", e, OnGlobal(e, context, Pos))
VisitOnExport ==
  AtEntry("Export") /\ \E e \in PlainEntries : Deliver("OnExport", e, OnExport(e, context, Pos))
VisitOnStart ==
  AtEntry("Start") /\ \E e \in PlainEntries : Deliver("OnStart", e, OnStart(e, context, Pos))
VisitOnElement ==
  AtEntry("Element") /\ \E e \in PlainEntries : Deliver("OnElement", e, OnElement(e, context, Pos))
VisitOnDataCount ==
  AtEntry("DataCount") /\ \E e \in PlainEntries : Deliver("OnDataCount", e, OnDataCount(e, context, Pos))
VisitOnCode ==
  AtEntry("Code") /\ \E e \in CodeEntries : Deliver("OnCode", e, OnCode(e, context, Pos))
VisitOnData ==
  AtEntry("Data") /\ \E e \in PlainEntries : Deliver("OnData", e, OnData(e, context, Pos))

\* The entry reader is at the end of its section: on to the next section.
EntriesEnd ==
  /\ pc = "entries"
  /\ events' = Append(events, [kind |-> "end_section"])
  /\ cur' = None
  /\ pc' = "sections"
  /\ UNCHANGED <<args, findex, ok, exitcode, module, errors, context,
                 last_section_id, calls, allgood, lastfile, unread, stale>>
  /\ UNCHANGED writevars

\* The entry reader cannot read on: it reports the error and its sequence
\* ends; the driver goes on to the next section.
EntriesMalformed ==
  /\ pc = "entries"
  /\ events' = Append(events, [kind |-> "malformed_entry"])
  /\ errors' = Append(errors, Err(Pos, "malformed entry"))
  /\ cur' = None
  /\ pc' = "sections"
  /\ UNCHANGED <<args, findex, ok, exitcode, module, context,
                 last_section_id, calls, allgood, lastfile, unread, stale>>
  /\ UNCHANGED writevars

\* The end of one turn of Main's loop: the Tool goes out of scope. What its
\* context and its visitor's last_section_id held stays where it was, for
\* whatever is constructed there next.
ToolDtor ==
  /\ pc = "returned"
  /\ pc' = "loop"
  /\ module' = [magic |-> FALSE, version |-> FALSE]
  /\ errors' = <<>>
  /\ cur' = None
  /\ events' = <<>>
  /\ calls' = <<>>
  /\ lastfile' = "none"
  /\ unread' = FALSE
  /\ stale' = FALSE
  /\ UNCHANGED <<args, findex, ok, exitcode, context, last_section_id, allgood>>
  /\ UNCHANGED writevars

\* Main's loop is over: return ok ? 0 : 1.
MainReturn ==
  /\ pc = "loop"
  /\ ~MoreFiles
  /\ exitcode' = Some(ExitCodeOf(ok))
  /\ pc' = "done"
  /\ UNCHANGED <<args, findex, ok, module, errors, context, last_section_id,
                 cur, events, calls, allgood, lastfile, unread, stale>>
  /\ UNCHANGED writevars

Next ==
  \/ MainStart
  \/ ReadFileFails
  \/ ToolCtor
  \/ RunBegin
  \/ VisitOnSection
  \/ SectionsEnd
  \/ SectionsMalformed
  \/ VisitOnType
  \/ VisitOnImport
  \/ VisitOnFunction
  \/ VisitOnTable
  \/ VisitOnMemory
  \/ VisitOnGlobal
  \/ VisitOnExport
  \/ VisitOnStart
  \/ VisitOnElement
  \/ VisitOnDataCount
  \/ VisitOnCode
  \/ VisitOnData
  \/ EntriesEnd
  \/ EntriesMalformed
  \/ ToolDtor
  \/ MainReturn

Spec == Init /\ [][Next]_vars

\* Main is one sequential program: while a step of it is to be taken, it
\* is taken.
SpecLive == Spec /\ WF_vars(Next)

\* ------------------------------------------------- reading the history

\* Which callback answered item i of the history (the sections and entries
\* are answered in the order read, one call each).
ItemIndex(i) == Cardinality({j \in 1..i : events[j].kind \in {"section", "entry"}})
CallOf(i) == calls[ItemIndex(i)]

IsSection(i) == events[i].kind = "section"
IsKnownSection(i) == IsSection(i) /\ events[i].section.is_known
IsCustomSection(i) == IsSection(i) /\ ~events[i].section.is_known
IsEntry(i) == events[i].kind = "entry"
Accepted(i) == IsKnownSection(i) /\ CallOf(i).result = "Ok"

\* The id of the last known section accepted among the first n items.
LastAccepted(n) ==
  LET A == {i \in 1..n : Accepted(i)}
  IN IF A = {} THEN None
     ELSE Some(events[CHOOSE i \in A : \A j \in A : j <= i].section.id)

\* A visitor exists: Run is in the traversal or has just returned from it.
Visiting == pc \in {"sections", "entries"} \/ (pc = "returned" /\ calls # <<>>)

\* The errors the validator reports (the others come from the readers and
\* from OnSection).
ValidatorMessages == {"invalid type entry", "invalid type index", "invalid entry",
                      "unexpected code entry", "invalid locals", "invalid instruction"}
ValidatorErrorPositions ==
  {errors[k].pos : k \in {n \in 1..Len(errors) : errors[n].msg \in ValidatorMessages}}

\* ----------------------------------------------------------------- claims

\* The order the sections are to come in.
CanonicalOrder == <<"Type", "Import", "Function", "Table", "Memory", "Global",
                    "Export", "Start", "Element", "DataCount", "Code", "Data">>
CanonicalPos(id) == CHOOSE k \in 1..Len(CanonicalOrder) : CanonicalOrder[k] = id

\* C1: among the known sections OnSection accepts in one run, the positions
\* in the canonical order increase strictly (so each accepted section lies
\* after the last accepted one); a known section whose id was accepted
\* before is answered Fail; and in a successful run every known section
\* delivered was accepted.
C1_SectionOrder ==
  /\ \A i, j \in 1..Len(events) :
       (/\ i < j
        /\ Accepted(i) /\ Accepted(j)
        /\ events[i].section.id \in KnownIds
        /\ events[j].section.id \in KnownIds)
       => CanonicalPos(events[i].section.id) < CanonicalPos(events[j].section.id)
  /\ \A i, j \in 1..Len(events) :
       (/\ i < j
        /\ Accepted(i) /\ IsKnownSection(j)
        /\ events[i].section.id = events[j].section.id)
       => CallOf(j).result = "Fail"
  /\ (pc = "returned" /\ lastfile = "ok")
       => \A i \in 1..Len(events) : IsKnownSection(i) => Accepted(i)

\* C1 witness: a known section was accepted and a later one, which does
\* not lie after it in the canonical order, was answered Fail.
C1_Witness ==
  \E i, j \in 1..Len(events) :
    /\ i < j
    /\ Accepted(i) /\ IsKnownSection(j)
    /\ events[i].section.id \in KnownIds
    /\ events[j].section.id \in KnownIds
    /\ CanonicalPos(events[j].section.id) <= CanonicalPos(events[i].section.id)
    /\ CallOf(j).result = "Fail"

\* C2: when an error was reported while a file was processed, Tool::Run
\* returns false for it, and Main's ok is false (so that it returns 1).
C2_ErrorMeansFailure ==
  (pc = "returned" /\ errors # <<>>) => (lastfile = "fail" /\ ~ok)

\* C3 helper: the steps OnCode is to take for a code entry: BeginCode, the
\* locals in declared order, the instructions in reading order, up to and
\* with the first step that fails.
AllSteps(code) ==
  <<<<"BeginCode", 0>>>>
  \o [k \in 1..Len(code.locals) |-> <<"Locals", k>>]
  \o [k \in 1..Len(code.instrs) |-> <<"Instruction", k>>]
StepOk(code, n) ==
  IF n = 1 THEN code.begin_ok
  ELSE IF n <= 1 + Len(code.locals) THEN code.locals[n - 1]
  ELSE code.instrs[n - 1 - Len(code.locals)]
FailingSteps(code) == {n \in 1..Len(AllSteps(code)) : ~StepOk(code, n)}
FirstFailing(code) == CHOOSE n \in FailingSteps(code) : \A m \in FailingSteps(code) : n <= m
ExpectedSteps(code) ==
  IF FailingSteps(code) = {} THEN AllSteps(code)
  ELSE SubSeq(AllSteps(code), 1, FirstFailing(code))

\* C3: only the last callback of a module can have returned Fail, and then
\* nothing was read after it and Run has returned false; OnCode takes its
\* steps in order up to the first failing one, and returns Fail exactly
\* when one fails.
C3_FailStops ==
  /\ \A k \in 1..Len(calls) : calls[k].result = "Fail" => k = Len(calls)
  /\ (calls # <<>> /\ calls[Len(calls)].result = "Fail")
       => /\ pc = "returned" /\ lastfile = "fail"
          /\ events[Len(events)].kind \in {"section", "entry"}
  /\ \A i \in 1..Len(events) :
       (IsEntry(i) /\ CallOf(i).cb = "OnCode")
       => /\ CallOf(i).steps = ExpectedSteps(events[i].entry)
          /\ (CallOf(i).result = "Fail") = (FailingSteps(events[i].entry) # {})

\* C3 witness: OnCode returned Fail at a locals entry or an instruction,
\* with steps of the body left that it did not take.
C3_Witness ==
  \E i \in 1..Len(events) :
    /\ IsEntry(i) /\ CallOf(i).cb = "OnCode"
    /\ CallOf(i).result = "Fail"
    /\ Len(CallOf(i).steps) > 1
    /\ Len(CallOf(i).steps) < Len(AllSteps(events[i].entry))
    /\ pc = "returned" /\ lastfile = "fail"

\* C4 as first stated: validation goes on past an invalid entry, so when
\* the run has ended no invalid entry of the module is left that the
\* validator was never handed.
C4_AllFindingsReported == pc = "returned" => ~unread

\* C4 as amended: validation stops at the first invalid entry. The
\* validator's errors all belong to one entry, the last item read; once
\* they are reported Run has returned false and nothing more is read.
C4_StopsAtFirstInvalid ==
  /\ Cardinality(ValidatorErrorPositions) <= 1
  /\ ValidatorErrorPositions # {}
       => /\ pc = "returned" /\ lastfile = "fail"
          /\ ValidatorErrorPositions = {Len(events)}
          /\ IsEntry(Len(events))
          /\ calls[Len(calls)].result = "Fail"

\* C4 witness: the run stopped at an invalid entry while the unread rest of
\* the module holds another.
C4_Witness ==
  /\ pc = "returned" /\ lastfile = "fail"
  /\ ValidatorErrorPositions # {}
  /\ unread

\* C5 as first stated: Main returns 0 exactly when every file could be read
\* and Run returned true for it, and the exit code is 1 when no filename is
\* given.
C5_ExitCode ==
  /\ pc = "done" => (exitcode = Some(0)) = allgood
  /\ pc = "done" => exitcode \in {Some(0), Some(1)}
  /\ (pc \in {"done", "exited"} /\ args.empty) => exitcode = Some(1)

\* C5 as amended: unless --help is given (then the exit code is 0 and no
\* file is taken), Main returns 0 exactly when every file could be read and
\* Run returned true for it, 1 otherwise, and the exit code is 1 when no
\* filename is given.
C5_ExitCodeUnlessHelp ==
  /\ pc = "done" => (exitcode = Some(0)) = allgood
  /\ pc = "done" => exitcode \in {Some(0), Some(1)}
  /\ pc = "done" => ~args.help /\ ~args.empty /\ findex >= 1
  /\ (pc # "start" /\ ~args.help /\ args.empty) => (pc = "exited" /\ exitcode = Some(1))
  /\ (pc # "start" /\ args.help) => (pc = "exited" /\ exitcode = Some(0) /\ findex = 0)
  /\ pc = "exited" => (args.help \/ args.empty)

\* C5 witness: Main returned 1 after two files, of which one failed or
\* could not be read.
C5_Witness ==
  /\ pc = "done" /\ exitcode = Some(1)
  /\ findex = 2 /\ ~allgood

\* C6: no visitor callback is invoked for a module whose magic or version
\* was not read; Run returns false for it, and Main then returns 1.
C6_BadHeader ==
  /\ calls # <<>> => (module.magic /\ module.version)
  /\ pc \in {"sections", "entries"} => (module.magic /\ module.version)
  /\ (pc = "returned" /\ ~(module.magic /\ module.version))
       => (calls = <<>> /\ events = <<>> /\ lastfile = "fail" /\ ~ok /\ ~allgood)
  /\ (pc = "done" /\ ~allgood) => exitcode = Some(1)

\* C6 witness: Run has returned false for a module whose magic was read
\* and whose version was not.
C6_Witness ==
  /\ pc = "returned" /\ lastfile = "fail"
  /\ module.magic /\ ~module.version
  /\ calls = <<>>

\* C7 helper: OnSection over a list of sections, from a new visitor: the
\* results, up to and with the first Fail.
RECURSIVE SectionResults(_, _, _)
SectionResults(secs, i, last) ==
  IF i > Len(secs) THEN <<>>
  ELSE LET r == OnSection(last, secs[i], i)
       IN IF r.result = "Fail" THEN <<"Fail">>
          ELSE <<"Ok">> \o SectionResults(secs, i + 1, r.last)

\* C7 helper: the known sections read so far and OnSection's answers to them.
KnownIndexes == {i \in 1..Len(events) : IsKnownSection(i)}
RECURSIVE KnownOnly(_)
KnownOnly(n) ==
  IF n = 0 THEN <<>>
  ELSE IF IsKnownSection(n) THEN Append(KnownOnly(n - 1), events[n].section)
  ELSE KnownOnly(n - 1)
RECURSIVE KnownAnswers(_)
KnownAnswers(n) ==
  IF n = 0 THEN <<>>
  ELSE IF IsKnownSection(n) THEN Append(KnownAnswers(n - 1), CallOf(n).result)
  ELSE KnownAnswers(n - 1)

\* C7: OnSection answers a custom section Ok and reports no error at it;
\* last_section_id is the last accepted known section whatever custom
\* sections were read; and the answers to the known sections are those
\* the same known sections get with the custom sections left out.
C7_CustomSections ==
  /\ \A i \in 1..Len(events) :
       IsCustomSection(i)
       => /\ CallOf(i).result = "Ok"
          /\ \A k \in 1..Len(errors) : errors[k].pos # i
  /\ Visiting => last_section_id = LastAccepted(Len(events))
  /\ KnownAnswers(Len(events)) = SectionResults(KnownOnly(Len(events)), 1, None)

\* C7 witness: a custom section was read after a known section was
\* accepted, and the visitor still holds that section's id.
C7_Witness ==
  \E i, j \in 1..Len(events) :
    /\ i < j
    /\ Accepted(i) /\ IsCustomSection(j)
    /\ CallOf(j).result = "Ok"
    /\ last_section_id = Some(events[i].section.id)

\* C8 helper: the last item read is the Import section, and the last known
\* section accepted before it is Function.
ImportAfterFunction ==
  /\ pc = "returned"
  /\ Len(events) >= 2
  /\ IsKnownSection(Len(events))
  /\ events[Len(events)].section.id = "Import"
  /\ LastAccepted(Len(events) - 1) = Some("Function")

\* C8 as first stated: the error reads "Section out of order: Import cannot
\* occur after Function", at the section; Fail; last_section_id stays
\* Function.
C8_ImportAfterFunction ==
  ImportAfterFunction
  => /\ calls[Len(calls)].result = "Fail" /\ lastfile = "fail"
     /\ last_section_id = Some("Function")
     /\ errors # <<>>
     /\ errors[Len(errors)] =
          Err(Len(events), "Section out of order: Import cannot occur after Function")

\* C8 as amended: the same, with the message as format() writes it: the
\* section ids in lower case, and a newline at the end; it is the one error
\* reported at that section.
C8_ImportAfterFunctionLower ==
  ImportAfterFunction
  => /\ calls[Len(calls)].result = "Fail" /\ lastfile = "fail"
     /\ last_section_id = Some("Function")
     /\ errors # <<>>
     /\ errors[Len(errors)] =
          Err(Len(events), "Section out of order: import cannot occur after function\n")
     /\ Cardinality({k \in 1..Len(errors) : errors[k].pos = Len(events)}) = 1

\* C8 witness: the Import section was read after the Function section was
\* accepted.
C8_Witness == ImportAfterFunction

\* C9: what Run returns for a file is what it returns for that file alone,
\* whatever files Main took before it.
C9_FileAlone ==
  pc = "returned" => (lastfile = "ok") = Run(module, events)

\* C9 witness: Run has returned false for the second file, whose function
\* entry names type 0 and was found invalid, after a first file that
\* defined a type and left its context and last_section_id behind.
C9_Witness ==
  /\ pc = "returned" /\ findex = 2
  /\ stale
  /\ lastfile = "fail"
  /\ \E i \in 1..Len(events) :
       /\ IsEntry(i) /\ CallOf(i).cb = "OnFunction"
       /\ events[i].entry.type_index = 0
       /\ CallOf(i).result = "Fail"

\* ------------------------------------------------- the writer's calls

\* A call of a writer on the context, with an output iterator of its own:
\* w is what it leaves.
WriterCall(w) ==
  /\ wctx' = [separator |-> w.separator, indent |-> w.indent, level |-> w.level]
  /\ out' = w.out
  /\ thrown' = w.thrown
  /\ tail' = IF w.out = <<>> THEN tail ELSE w.out[Len(w.out)]
  /\ misflushed' = w.mis
  /\ UNCHANGED <<toolvars, bytes, typevars>>

\* Nothing catches an exception, so no call follows one that threw.
Writing == ~thrown
W == WriterState(wctx, <<>>)

\* The instruction lists handed to WriteWithNewlines: the instructions
\* that move the indent, and one that does not.
ListInstructions == {i \in Instructions : i.immediate.kind # "memarg"}
InstructionLists == UNION {[1..n -> ListInstructions] : n \in 0..MaxList}

CallClearSeparator ==
  /\ Writing
  /\ lastcall' = "ClearSeparator"
  /\ lastarg' = None
  /\ WriterCall(ClearSeparator(W))
CallSpace ==
  /\ Writing
  /\ lastcall' = "Space"
  /\ lastarg' = None
  /\ WriterCall(Space(W))
CallNewline ==
  /\ Writing
  /\ lastcall' = "Newline"
  /\ lastarg' = None
  /\ WriterCall(Newline(W))
CallIndent ==
  /\ Writing
  /\ lastcall' = "Indent"
  /\ lastarg' = None
  /\ wctx.level < MaxDepth
  /\ WriterCall(Indent(W))
CallDedent ==
  /\ Writing
  /\ lastcall' = "Dedent"
  /\ lastarg' = None
  /\ WriterCall(Dedent(W))
CallWriteSeparator ==
  /\ Writing
  /\ lastcall' = "WriteSeparator"
  /\ lastarg' = None
  /\ WriterCall(WriteSeparator(W))
CallWriteString ==
  /\ Writing
  /\ lastcall' = "WriteString"
  /\ lastarg' = None
  /\ \E t \in Tokens : WriterCall(WriteString(W, t))
CallWriteFormat ==
  /\ Writing
  /\ lastcall' = "WriteFormat"
  /\ lastarg' = None
  /\ \E n \in Numbers : WriterCall(WriteFormat(W, Format(n)))
CallWriteLpar ==
  /\ Writing
  /\ lastcall' = "WriteLpar"
  /\ lastarg' = None
  /\ WriterCall(WriteLpar(W))
CallWriteLparName ==
  /\ Writing
  /\ lastcall' = "WriteLparName"
  /\ lastarg' = None
  /\ \E t \in Tokens : WriterCall(WriteLparName(W, t))
CallWriteRpar ==
  /\ Writing
  /\ lastcall' = "WriteRpar"
  /\ lastarg' = None
  /\ WriterCall(WriteRpar(W))
\* Instructions with the other immediates: one for each kind of the
\* data model that this model writes.
ImmediateInstructions ==
  {[opcode |-> "const", immediate |-> [kind |-> "s32", value |-> -3]],
   [opcode |-> "fconst",
    immediate |-> [kind |-> "f32", value |-> [whole |-> 1, tenths |-> 5]]],
   [opcode |-> "br", immediate |-> [kind |-> "var", var |-> Idx(0)]],
   [opcode |-> "br_on_exn",
    immediate |-> [kind |-> "br_on_exn", target |-> Idx(0), event |-> Idx(4)]],
   [opcode |-> "br_table",
    immediate |-> [kind |-> "br_table", targets |-> <<Idx(0), Idx(4)>>,
                   default_target |-> Idx(7)]],
   [opcode |-> "call_indirect",
    immediate |-> [kind |-> "call_indirect", table |-> Some(Idx(0)),
                   type |-> [type_use |-> Some(Idx(4)),
                             type |-> [params |-> <<>>, results |-> <<>>]]]],
   [opcode |-> "copy",
    immediate |-> [kind |-> "copy", dst |-> Some(Idx(0)), src |-> Some(Idx(4))]],
   [opcode |-> "init",
    immediate |-> [kind |-> "init", dst |-> Some(Idx(0)), segment |-> Idx(4)]],
   [opcode |-> "init",
    immediate |-> [kind |-> "init", dst |-> None, segment |-> Idx(4)]],
   [opcode |-> "ref.null", immediate |-> [kind |-> "reftype", type |-> "funcref"]],
   [opcode |-> "select", immediate |-> [kind |-> "select", types |-> <<"i32">>]]}

CallWriteInstruction ==
  /\ Writing
  /\ lastcall' = "WriteInstruction"
  /\ \E i \in Instructions \cup ImmediateInstructions :
       /\ lastarg' = Some(i)
       /\ WriterCall(WriteInstruction(W, i))
CallWriteWithNewlines ==
  /\ Writing
  /\ lastcall' = "WriteWithNewlines"
  /\ lastarg' = None
  /\ wctx.level < MaxDepth
  /\ \E l \in InstructionLists : WriterCall(WriteWithNewlines(W, l))

Ints == {-3, 0, 4}
Opcodes == {"nop", "block", "let", "else", "end", "load"}

CallWriteNat ==
  /\ Writing
  /\ lastcall' = "WriteNat"
  /\ lastarg' = None
  /\ \E n \in Numbers : WriterCall(WriteNat(W, n))
CallWriteInt ==
  /\ Writing
  /\ lastcall' = "WriteInt"
  /\ lastarg' = None
  /\ \E n \in Ints : WriterCall(WriteInt(W, n))
CallWriteFloat ==
  /\ Writing
  /\ lastcall' = "WriteFloat"
  /\ lastarg' = None
  /\ \E f \in Floats : WriterCall(WriteFloat(W, f))
CallWriteVar ==
  /\ Writing
  /\ lastcall' = "WriteVar"
  /\ lastarg' = None
  /\ \E v \in Vars : WriterCall(WriteVar(W, v))
CallWriteValueType ==
  /\ Writing
  /\ lastcall' = "WriteValueType"
  /\ lastarg' = None
  /\ \E vt \in ValueTypes : WriterCall(WriteValueType(W, vt))
CallWriteOpcode ==
  /\ Writing
  /\ lastcall' = "WriteOpcode"
  /\ lastarg' = None
  /\ \E o \in Opcodes : WriterCall(WriteOpcode(W, o))

\* ------------------------------------------- the module item writers' calls

\* The values written in this model.
BindVars == {None, Some(<<"$", "f">>)}
InlineExportLists ==
  {<<>>, <<[name |-> TextOf("e")]>>,
   <<[name |-> TextOf("e")], [name |-> TextOf("g")]>>}
InlineImports == {None, Some([module |-> TextOf("m"), name |-> TextOf("n")])}
TypeUses == {None, Some([is_index |-> TRUE, index |-> 0])}
BoundFunctionTypes ==
  {[params |-> <<>>, results |-> <<>>],
   [params |-> <<[name |-> None, type |-> "i32"]>>, results |-> <<"f32">>]}
Nop == [opcode |-> "nop", immediate |-> NoImmediate]
Bodies ==
  {[locals |-> <<>>, instructions |-> <<>>],
   [locals |-> <<[name |-> None, type |-> "i32"]>>, instructions |-> <<Nop>>]}
Functions ==
  {[desc |-> [name |-> n, type_use |-> u, type |-> t], exports |-> x,
    import |-> i, locals |-> b.locals, instructions |-> b.instructions] :
     n \in BindVars, u \in TypeUses, t \in BoundFunctionTypes,
     x \in InlineExportLists, i \in InlineImports, b \in Bodies}

\* A table is imported, or carries inline elements, or neither; a memory
\* is imported, or carries inline data, or neither.
TheTableType ==
  [limits |-> [min |-> 1, max |-> Some(2), shared |-> FALSE],
   elemtype |-> "funcref"]
InlineElements ==
  {None,
   Some([with_vars |-> TRUE, kind |-> "Function",
         list |-> <<[is_index |-> TRUE, index |-> 0]>>]),
   Some([with_vars |-> FALSE, elemtype |-> "funcref", list |-> <<Nop>>])}
Tables ==
  {t \in {[desc |-> [name |-> n, type |-> TheTableType], exports |-> x,
           import |-> i, elements |-> e] :
            n \in BindVars, x \in InlineExportLists, i \in InlineImports,
            e \in InlineElements} :
     t.import = None \/ t.elements = None}

TheMemoryType == [limits |-> [min |-> 1, max |-> None, shared |-> FALSE]]
InlineData == {None, Some(<<TextOf("d")>>)}
Memories ==
  {m \in {[desc |-> [name |-> n, type |-> TheMemoryType], exports |-> x,
           import |-> i, data |-> d] :
            n \in BindVars, x \in InlineExportLists, i \in InlineImports,
            d \in InlineData} :
     m.import = None \/ m.data = None}

GlobalTypes == {[mut |-> m, valtype |-> "i32"] : m \in BOOLEAN}
Globals ==
  {[desc |-> [name |-> n, type |-> t], exports |-> x, import |-> i,
    init |-> <<Nop>>] :
     n \in BindVars, t \in GlobalTypes, x \in InlineExportLists,
     i \in InlineImports}

TheEventType ==
  [type |-> [type_use |-> Some([is_index |-> TRUE, index |-> 0]),
             type |-> [params |-> <<>>, results |-> <<>>]]]
Events ==
  {[desc |-> [name |-> n, type |-> TheEventType], exports |-> x, import |-> i] :
     n \in BindVars, x \in InlineExportLists, i \in InlineImports}

\* Values of a list handed to Write(BoundValueTypeList).
MaxValues == 3

BoundValues ==
  {[name |-> None, type |-> t] : t \in ValueTypes}
    \cup {[name |-> Some(<<"$", "f">>), type |-> "i32"]}
BoundValueLists == UNION {[1..n -> BoundValues] : n \in 0..MaxValues}

CallWriteBoundValueTypes ==
  /\ Writing
  /\ lastcall' = "WriteBoundValueTypes"
  /\ \E values \in BoundValueLists, prefix \in {KwParam, KwLocal} :
       /\ lastarg' = Some([values |-> values, prefix |-> prefix])
       /\ WriterCall(WriteBoundValueTypes(W, values, prefix))
\* Write(BoundValueTypeList) with nothing, a space and a newline pending.
NextP ==
  \/ CallNewline
  \/ CallWriteBoundValueTypes

SpecP == Init /\ [][NextP]_vars

CallWriteFunction ==
  /\ Writing
  /\ lastcall' = "WriteFunction"
  /\ \E f \in Functions :
       /\ lastarg' = Some(f)
       /\ WriterCall(WriteFunction(W, f))
CallWriteTable ==
  /\ Writing
  /\ lastcall' = "WriteTable"
  /\ \E t \in Tables :
       /\ lastarg' = Some(t)
       /\ WriterCall(WriteTable(W, t))
CallWriteMemory ==
  /\ Writing
  /\ lastcall' = "WriteMemory"
  /\ \E m \in Memories :
       /\ lastarg' = Some(m)
       /\ WriterCall(WriteMemory(W, m))
CallWriteGlobal ==
  /\ Writing
  /\ lastcall' = "WriteGlobal"
  /\ \E g \in Globals :
       /\ lastarg' = Some(g)
       /\ WriterCall(WriteGlobal(W, g))
CallWriteEvent ==
  /\ Writing
  /\ lastcall' = "WriteEvent"
  /\ \E e \in Events :
       /\ lastarg' = Some(e)
       /\ WriterCall(WriteEvent(W, e))

\* The module item writers, called on contexts of any indent.
\* The element segments written in this model: an active one has an
\* offset and may have a table use, a passive and a declared one have
\* neither.
ElementLists ==
  {[with_vars |-> TRUE, kind |-> k,
    list |-> <<[is_index |-> FALSE, name |-> <<"$", "v">>]>>] : k \in ExternalKinds}
  \cup {[with_vars |-> FALSE, elemtype |-> "funcref", list |-> <<Nop>>]}
TableUses == {None, Some([is_index |-> TRUE, index |-> 0])}
ElementSegments ==
  {[type |-> "Active", name |-> n, table |-> t, offset |-> Some(<<Nop>>),
    elements |-> e] :
     n \in BindVars, t \in TableUses, e \in ElementLists}
  \cup {[type |-> ty, name |-> n, table |-> None, offset |-> None,
         elements |-> e] :
          ty \in {"Passive", "Declared"}, n \in BindVars, e \in ElementLists}

CallWriteElementSegment ==
  /\ Writing
  /\ lastcall' = "WriteElementSegment"
  /\ \E s \in ElementSegments :
       /\ lastarg' = Some(s)
       /\ WriterCall(WriteElementSegment(W, s))

NextM ==
  \/ CallIndent
  \/ CallNewline
  \/ CallWriteFunction
  \/ CallWriteTable
  \/ CallWriteMemory
  \/ CallWriteGlobal
  \/ CallWriteEvent
  \/ CallWriteElementSegment

SpecM == Init /\ [][NextM]_vars

CallWriteMemArg ==
  /\ Writing
  /\ lastcall' = "WriteMemArg"
  /\ \E m \in MemArgs :
       /\ lastarg' = Some(m)
       /\ WriterCall(WriteMemArg(W, m))

\* ------------------------------------------------------ the binary writer

MaxBytes == 3

\* encoding::SectionId::Encode: the number of a section id.
SectionIdEncode(id) ==
  CASE id = "Custom" -> 0
    [] id = "Type" -> 1
    [] id = "Import" -> 2
    [] id = "Function" -> 3
    [] id = "Table" -> 4
    [] id = "Memory" -> 5
    [] id = "Global" -> 6
    [] id = "Export" -> 7
    [] id = "Start" -> 8
    [] id = "Element" -> 9
    [] id = "Code" -> 10
    [] id = "Data" -> 11
    [] id = "DataCount" -> 12
    [] id = "100" -> 100

\* Write(u32): unsigned LEB128, seven bits a byte from the low end, the
\* high bit set on every byte but the last.
RECURSIVE WriteU32(_)
WriteU32(value) ==
  IF value \div 128 = 0 THEN <<value % 128>>
  ELSE <<(value % 128) + 128>> \o WriteU32(value \div 128)

\* Write(SectionId)
WriteSectionIdMutPadded(value) == <<SectionIdEncode(value) + 128, 0>>
WriteSectionId(value) == WriteU32(SectionIdEncode(value))

\* The most bytes an unsigned LEB128 of n_bits bits takes: ceil(n_bits/7).
MaxLEBBytes(n_bits) == (n_bits + 6) \div 7

\* ReadUnsignedLEB128(n_bits): the value of the unsigned LEB128 at the
\* front of data and the number of bytes it takes; None (Malformed) when
\* the input ends within it, when the continuation bit is set on byte
\* ceil(n_bits/7), or when that byte has a bit set above the n_bits bits.
\* left is the number of bits still to be read.
RECURSIVE ReadLEBFrom(_, _)
ReadLEBFrom(data, left) ==
  IF data = <<>> THEN None
  ELSE IF left <= 7
  THEN IF data[1] >= 128 \/ data[1] >= 2 ^ left THEN None
       ELSE Some([value |-> data[1], size |-> 1])
  ELSE IF data[1] < 128 THEN Some([value |-> data[1], size |-> 1])
  ELSE LET rest == ReadLEBFrom(Tail(data), left - 7)
       IN IF rest = None THEN None
          ELSE Some([value |-> (data[1] % 128) + 128 * rest[1].value,
                     size |-> rest[1].size + 1])
ReadUnsignedLEB128MutCanonical(data, n_bits) ==
  LET r == ReadLEBFrom(data, n_bits)
  IN IF r # None /\ r[1].size > 1 /\ data[r[1].size] = 0 THEN None ELSE r
ReadUnsignedLEB128(data, n_bits) == ReadLEBFrom(data, n_bits)
ReadU32(data) == ReadUnsignedLEB128(data, 32)

\* encoding::SectionId::Decode: the section id of a number.
WrittenIds == {"Custom"} \cup SectionIds
SectionIdDecode(n) ==
  IF \E id \in WrittenIds : SectionIdEncode(id) = n
  THEN Some(CHOOSE id \in WrittenIds : SectionIdEncode(id) = n)
  ELSE None

\* Read<SectionId>
ReadSectionId(data) ==
  IF ReadU32(data) = None THEN None ELSE SectionIdDecode(ReadU32(data)[1].value)

\* The numbers written in this model: the ends of the one-byte and the
\* two-byte range and a number of five bytes.
U32s == {0, 127, 128, 16383, 16384, 2147483647}

BinaryCall(written) ==
  /\ Len(bytes) < MaxBytes
  /\ bytes' = bytes \o written
  /\ UNCHANGED <<toolvars, wctx, out, thrown, tail, othervars>>
CallWriteSectionId ==
  /\ lastcall' = "WriteSectionId"
  /\ \E id \in WrittenIds :
       /\ lastarg' = Some(id)
       /\ BinaryCall(WriteSectionId(id))
CallWriteU32 ==
  /\ lastcall' = "WriteU32"
  /\ \E n \in U32s :
       /\ lastarg' = Some(n)
       /\ BinaryCall(WriteU32(n))

NextB ==
  \/ CallWriteSectionId
  \/ CallWriteU32

SpecB == Init /\ [][NextB]_vars

\* ------------------------------------------------- the binary formatters

MaxLimit == 5

\* format("{}", Limits): {min N}, with ", max M" when there is a max and
\* ", shared" when the limits are shared.
FormatLimitsMutSharedFirst(limits) ==
  <<"{", "m", "i", "n", " ">> \o NatToStr(limits.min)
  \o (IF limits.shared THEN <<",", " ", "s", "h", "a", "r", "e", "d">> ELSE <<>>)
  \o (IF limits.max # None THEN <<",", " ", "m", "a", "x", " ">> \o NatToStr(limits.max[1]) ELSE <<>>)
  \o <<"}">>
FormatLimits(limits) ==
  <<"{", "m", "i", "n", " ">> \o NatToStr(limits.min)
  \o (IF limits.max # None THEN <<",", " ", "m", "a", "x", " ">> \o NatToStr(limits.max[1]) ELSE <<>>)
  \o (IF limits.shared THEN <<",", " ", "s", "h", "a", "r", "e", "d">> ELSE <<>>)
  \o <<"}">>

\* format("{}", TableType): the limits and the element type.
FormatTableType(type) ==
  FormatLimits(type.limits) \o <<SP>> \o ReferenceTypeText(type.elemtype)

\* The limits formatted in this model: a max, when there is one, is not
\* below the min.
LimitsValues ==
  {l \in [min : 0..MaxLimit, max : {None} \cup {Some(m) : m \in 0..MaxLimit},
          shared : BOOLEAN] :
     l.max = None \/ l.min <= l.max[1]}
TableTypes == [limits : LimitsValues, elemtype : ReferenceTypes]

FormatCall(text) ==
  /\ out' = text
  /\ UNCHANGED <<toolvars, wctx, thrown, tail, bytes, othervars>>
CallFormatLimits ==
  /\ lastcall' = "FormatLimits"
  /\ \E l \in LimitsValues :
       /\ lastarg' = Some(l)
       /\ FormatCall(FormatLimits(l))
CallFormatTableType ==
  /\ lastcall' = "FormatTableType"
  /\ \E t \in TableTypes :
       /\ lastarg' = Some(t)
       /\ FormatCall(FormatTableType(t))

\* format("{}", SpanU8): the bytes in quotes, each as a backslash and two
\* hexadecimal digits. The bytes of this model are below ten.
RECURSIVE FormatBytes(_)
FormatBytes(data) ==
  IF data = <<>> THEN ""
  ELSE "\\0" \o ToString(Head(data)) \o FormatBytes(Tail(data))
FormatSpan(data) == "\"" \o FormatBytes(data) \o "\""

\* format("{}", KnownSection), format("{}", CustomSection) and
\* format("{}", Section), which prints the section it holds.
FormatKnownSectionMutNumber(section) ==
  "{id " \o ToString(SectionIdEncode(section.id)) \o ", contents "
  \o FormatSpan(section.contents) \o "}"
FormatKnownSection(section) ==
  "{id " \o SectionIdName(section.id) \o ", contents "
  \o FormatSpan(section.contents) \o "}"
FormatCustomSection(section) ==
  "{name \"" \o section.name \o "\", contents "
  \o FormatSpan(section.contents) \o "}"
FormatSection(section) ==
  IF section.is_known THEN FormatKnownSection(section)
  ELSE FormatCustomSection(section)

\* The sections formatted in this model: contents of up to MaxBytes bytes.
Contents == UNION {[1..n -> 0..2] : n \in 0..MaxBytes}
FormattedSections ==
  {[is_known |-> TRUE, id |-> i, contents |-> c] : i \in SectionIds, c \in Contents}
  \cup {[is_known |-> FALSE, name |-> "custom", contents |-> c] : c \in Contents}

CallFormatSection ==
  /\ lastcall' = "FormatSection"
  /\ \E section \in FormattedSections :
       /\ lastarg' = Some(section)
       /\ FormatCall(FormatSection(section))

NextF ==
  \/ CallFormatLimits
  \/ CallFormatTableType
  \/ CallFormatSection

SpecF == Init /\ [][NextF]_vars


\* ------------------------------------------- the validator's stack typing

\* Entries of the value stack that a step may leave, and frames of the
\* control stack above the function's.
MaxStack == 2
MaxFrames == 1

NumTypes == {"i32", "i64"}
StackAny == "Any"
StackTypes == NumTypes \cup {StackAny}
TypeLists == {<<>>, <<"i32">>, <<"i64">>}

\* The validator's state while a function body is validated.
TypingState(vs, cs, v, p) ==
  [value_stack |-> vs, control_stack |-> cs, valid |-> v, popped |-> p]
Typing == TypingState(value_stack, control_stack, valid, popped)
Fail(s) == [s EXCEPT !.valid = FALSE, !.popped = None]
Top(s) == s.control_stack[Len(s.control_stack)]
Height(s) == Len(s.value_stack)

\* Two stack types unify when they are equal or either is Any.
Unify(a, b) == a = b \/ a = StackAny \/ b = StackAny

\* PopValueExpect(t): Any, with nothing popped, in an unreachable frame
\* whose stack is at the frame's height; in a reachable frame at its
\* height there is no top of the frame's to pop, which fails; otherwise
\* the top is popped and has to unify with t.
PopValueExpectMutAlwaysPop(s, t) ==
  IF ~s.valid THEN s
  ELSE IF Height(s) = 0 THEN Fail(s)
  ELSE LET top == s.value_stack[Height(s)]
       IN IF Unify(top, t)
          THEN [s EXCEPT !.value_stack = SubSeq(s.value_stack, 1, Height(s) - 1),
                         !.popped = Some(top)]
          ELSE Fail(s)
PopValueExpect(s, t) ==
  IF ~s.valid THEN s
  ELSE IF Top(s).unreachable /\ Height(s) = Top(s).height
  THEN [s EXCEPT !.popped = Some(StackAny)]
  ELSE IF Height(s) = Top(s).height THEN Fail(s)
  ELSE LET top == s.value_stack[Height(s)]
       IN IF Unify(top, t)
          THEN [s EXCEPT !.value_stack = SubSeq(s.value_stack, 1, Height(s) - 1),
                         !.popped = Some(top)]
          ELSE Fail(s)

\* PushValue(t)
PushValue(s, t) ==
  IF ~s.valid THEN s ELSE [s EXCEPT !.value_stack = Append(s.value_stack, t)]

\* PopValues(list): pops in reverse order, the last type of the list first.
RECURSIVE PopValues(_, _)
PopValues(s, list) ==
  IF list = <<>> \/ ~s.valid THEN s
  ELSE PopValues(PopValueExpect(s, list[Len(list)]), SubSeq(list, 1, Len(list) - 1))

\* PushCtrl(opcode, in, out): pops in, pushes a frame whose height is the
\* length of the stack then, and pushes in back.
PushCtrl(s, opcode, in, outs) ==
  LET a == PopValues(s, in)
  IN IF ~a.valid THEN a
     ELSE [a EXCEPT !.control_stack =
                      Append(a.control_stack,
                             [opcode |-> opcode, start_types |-> in,
                              end_types |-> outs, height |-> Height(a),
                              unreachable |-> FALSE]),
                    !.value_stack = a.value_stack \o in]

\* PopCtrl(): pops the out types of the top frame, requires the stack to
\* be back at the frame's height, pops the frame and pushes out.
PopCtrlMutNoHeightCheck(s) ==
  LET a == PopValues(s, Top(s).end_types)
  IN IF ~a.valid THEN a
     ELSE [a EXCEPT !.control_stack =
                      SubSeq(a.control_stack, 1, Len(a.control_stack) - 1),
                    !.value_stack = a.value_stack \o Top(s).end_types]
PopCtrl(s) ==
  LET a == PopValues(s, Top(s).end_types)
  IN IF ~a.valid THEN a
     ELSE IF Height(a) # Top(s).height THEN Fail(a)
     ELSE [a EXCEPT !.control_stack =
                      SubSeq(a.control_stack, 1, Len(a.control_stack) - 1),
                    !.value_stack = a.value_stack \o Top(s).end_types]

\* Unreachable(): truncates the stack to the top frame's height and makes
\* the frame unreachable.
Unreachable(s) ==
  IF ~s.valid THEN s
  ELSE [s EXCEPT !.value_stack = SubSeq(s.value_stack, 1, Top(s).height),
                 !.control_stack[Len(s.control_stack)].unreachable = TRUE]

\* The function types of the model.
FunctionTypes == {[params |-> <<>>, results |-> r] : r \in {<<>>, <<"i32">>}}
\* The types of the blocks of the model.
BlockTypes ==
  {[params |-> <<>>, results |-> <<>>], [params |-> <<>>, results |-> <<"i32">>],
   [params |-> <<"i32">>, results |-> <<"i64">>]}

\* BeginCode: the function's frame on an empty stack.
BeginCode ==
  /\ control_stack = <<>> /\ func_type = None
  /\ lastcall' = "BeginCode"
  /\ lastarg' = None
  /\ \E type \in FunctionTypes :
       /\ func_type' = Some(type)
       /\ control_stack' = <<[opcode |-> "function", start_types |-> type.params,
                              end_types |-> type.results, height |-> 0,
                              unreachable |-> FALSE]>>
  /\ value_stack' = <<>>
  /\ valid' = TRUE
  /\ popped' = None
  /\ UNCHANGED <<toolvars, wctx, out, thrown, tail, bytes, read_result, misflushed>>

\* A step of the validation of a body: none follows a failed one, and
\* none the end of the function.
Validating == valid /\ control_stack # <<>>
TypingCall(s) ==
  /\ value_stack' = s.value_stack
  /\ control_stack' = s.control_stack
  /\ valid' = s.valid
  /\ popped' = s.popped
  /\ UNCHANGED <<toolvars, wctx, out, thrown, tail, bytes, func_type, read_result,
                 misflushed>>

CallPushValue ==
  /\ Validating /\ Height(Typing) < MaxStack
  /\ lastcall' = "PushValue"
  /\ \E t \in StackTypes :
       /\ lastarg' = None
       /\ TypingCall(PushValue(Typing, t))
CallPopValueExpect ==
  /\ Validating
  /\ lastcall' = "PopValueExpect"
  /\ \E t \in StackTypes :
       /\ lastarg' = None
       /\ TypingCall(PopValueExpect(Typing, t))
CallPopValues ==
  /\ Validating
  /\ lastcall' = "PopValues"
  /\ \E list \in TypeLists \cup {<<"i32", "i64">>} :
       /\ lastarg' = None
       /\ TypingCall(PopValues(Typing, list))
CallPushCtrl ==
  /\ Validating /\ Len(control_stack) <= MaxFrames
  /\ lastcall' = "PushCtrl"
  /\ \E type \in BlockTypes :
       /\ Height(Typing) - Len(type.params) + Len(type.results) <= MaxStack
       /\ lastarg' = None
       /\ TypingCall(PushCtrl(Typing, "block", type.params, type.results))
CallPopCtrl ==
  /\ Validating
  /\ lastcall' = "PopCtrl"
  /\ lastarg' = None
  /\ TypingCall(PopCtrl(Typing))
CallUnreachable ==
  /\ Validating
  /\ lastcall' = "Unreachable"
  /\ lastarg' = None
  /\ TypingCall(Unreachable(Typing))

NextT ==
  \/ BeginCode
  \/ CallPushValue
  \/ CallPopValueExpect
  \/ CallPopValues
  \/ CallPushCtrl
  \/ CallPopCtrl
  \/ CallUnreachable

SpecT == Init /\ [][NextT]_vars


\* Instructions of a function body that is validated.
MaxCode == 4

\* The instructions of the bodies of the model.
CodeInstructions ==
  {[op |-> o, type |-> None] : o \in {"i32.const", "i64.const", "drop", "unreachable", "end"}}
    \cup {[op |-> "block", type |-> Some(t)] : t \in BlockTypes}

\* Validate(instruction): the stack typing of one instruction.
ValidateInstruction(s, instruction) ==
  CASE instruction.op = "i32.const" -> PushValue(s, "i32")
    [] instruction.op = "i64.const" -> PushValue(s, "i64")
    [] instruction.op = "drop" -> PopValueExpect(s, StackAny)
    [] instruction.op = "unreachable" -> Unreachable(s)
    [] instruction.op = "block" ->
         PushCtrl(s, "block", instruction.type[1].params, instruction.type[1].results)
    [] instruction.op = "end" -> PopCtrl(s)

\* The body read so far, kept with the call.
CodeRead == IF lastarg = None THEN <<>> ELSE lastarg[1]

\* One turn of OnCode's loop over the instructions of the body.
CallValidate ==
  /\ Validating /\ Len(CodeRead) < MaxCode
  /\ lastcall' = "Validate"
  /\ \E instruction \in CodeInstructions :
       /\ lastarg' = Some(Append(CodeRead, instruction))
       /\ TypingCall(ValidateInstruction(Typing, instruction))

NextV ==
  \/ BeginCode
  \/ CallValidate

SpecV == Init /\ [][NextV]_vars


\* ------------------------------------------------------ the binary reader

\* The bytes of the inputs of the model: the ends of the range without
\* and with the continuation bit, and bytes with few bits set.
LEBBytes == {0, 1, 3, 4, 127, 128, 129, 255}
LEBInputs == UNION {[1..n -> LEBBytes] : n \in 0..MaxBytes}
BitWidths == {7, 8, 16, 32}

\* A read does not depend on what was read before: one read of each input.
CallReadUnsignedLEB128 ==
  /\ lastcall = ""
  /\ lastcall' = "ReadUnsignedLEB128"
  /\ \E data \in LEBInputs, n_bits \in BitWidths :
       /\ lastarg' = Some([data |-> data, n_bits |-> n_bits])
       /\ read_result' = ReadUnsignedLEB128(data, n_bits)
  /\ UNCHANGED <<toolvars, wctx, out, thrown, tail, bytes, value_stack,
                 control_stack, valid, popped, func_type, misflushed>>

NextL ==
  \/ CallReadUnsignedLEB128

SpecL == Init /\ [][NextL]_vars


\* ------------------------------------------------ the rest of the items

KwType == <<"t", "y", "p", "e">>
KwImport == <<"i", "m", "p", "o", "r", "t">>
KwExport == <<"e", "x", "p", "o", "r", "t">>
KwStart == <<"s", "t", "a", "r", "t">>

\* Write(TypeEntry)
WriteTypeEntry(w, value) ==
  The({WriteRpar(WriteRpar(d)) :
       d \in {The({WriteValueTypesNamed(c, value.type.results, KwResult) :
       c \in {The({WriteBoundValueTypes(b, value.type.params, KwParam) :
       b \in {The({WriteOptName(a, value.bind_var) :
       a \in {WriteLparName(WriteLparName(w, KwType), KwFunc)}})}})}})}})

\* Write(FunctionDesc), Write(TableDesc), Write(MemoryDesc),
\* Write(GlobalDesc), Write(EventDesc)
WriteFunctionDesc(w, value) ==
  The({WriteValueTypesNamed(c, value.type.results, KwResult) :
       c \in {The({WriteBoundValueTypes(b, value.type.params, KwParam) :
       b \in {The({WriteTypeUse(a, value.type_use) :
       a \in {WriteOptName(WriteString(w, KwFunc), value.name)}})}})}})
WriteTableDesc(w, value) ==
  The({WriteTableType(a, value.type) :
       a \in {WriteOptName(WriteString(w, KwTable), value.name)}})
WriteMemoryDesc(w, value) ==
  The({WriteMemoryType(a, value.type) :
       a \in {WriteOptName(WriteString(w, KwMemory), value.name)}})
WriteGlobalDesc(w, value) ==
  The({WriteGlobalType(a, value.type) :
       a \in {WriteOptName(WriteString(w, KwGlobal), value.name)}})
WriteEventDesc(w, value) ==
  The({WriteEventType(a, value.type) :
       a \in {WriteOptName(WriteString(w, KwEvent), value.name)}})

\* Write(Import)
WriteImport(w, value) ==
  The({WriteRpar(WriteRpar(d)) :
       d \in {The({CASE value.kind = "Function" -> WriteFunctionDesc(c, value.desc)
                     [] value.kind = "Table" -> WriteTableDesc(c, value.desc)
                     [] value.kind = "Memory" -> WriteMemoryDesc(c, value.desc)
                     [] value.kind = "Global" -> WriteGlobalDesc(c, value.desc)
                     [] value.kind = "Event" -> WriteEventDesc(c, value.desc) :
       c \in {The({WriteLpar(WriteText(b, value.name)) :
       b \in {The({WriteText(a, value.module) :
       a \in {WriteLparName(w, KwImport)}})}})}})}})

\* Write(Export)
WriteExport(w, value) ==
  The({WriteRpar(WriteRpar(c)) :
       c \in {The({WriteVar(b, value.var) :
       b \in {The({WriteExternalKind(WriteLpar(a), value.kind) :
       a \in {WriteText(WriteLparName(w, KwExport), value.name)}})}})}})

\* Write(Start)
WriteStart(w, value) == WriteRpar(WriteVar(WriteLparName(w, KwStart), value.var))

\* Write(DataSegment)
WriteDataSegmentMutAnyType(w, value) ==
  The({WriteRpar(WriteTextsFrom(o, value.data, 1)) :
       o \in {The({IF value.offset # None
                   THEN WriteRpar(WriteInstructionList(WriteLparName(m, KwOffset),
                                                       value.offset[1]))
                   ELSE m :
       m \in {The({IF value.memory # None
                   THEN WriteRpar(WriteVar(WriteLparName(a, KwMemory), value.memory[1]))
                   ELSE a :
       a \in {WriteOptName(WriteLparName(w, KwData), value.name)}})}})}})
WriteDataSegment(w, value) ==
  The({WriteRpar(WriteTextsFrom(o, value.data, 1)) :
       o \in {The({IF value.type = "Active" /\ value.offset # None
                   THEN WriteRpar(WriteInstructionList(WriteLparName(m, KwOffset),
                                                       value.offset[1]))
                   ELSE m :
       m \in {The({IF value.type = "Active" /\ value.memory # None
                   THEN WriteRpar(WriteVar(WriteLparName(a, KwMemory), value.memory[1]))
                   ELSE a :
       a \in {WriteOptName(WriteLparName(w, KwData), value.name)}})}})}})

\* Write(ModuleItem): the item, then Newline.
WriteModuleItem(w, item) ==
  Newline(CASE item.kind = "TypeEntry" -> WriteTypeEntry(w, item.value)
            [] item.kind = "Import" -> WriteImport(w, item.value)
            [] item.kind = "Function" -> WriteFunction(w, item.value)
            [] item.kind = "Table" -> WriteTable(w, item.value)
            [] item.kind = "Memory" -> WriteMemory(w, item.value)
            [] item.kind = "Global" -> WriteGlobal(w, item.value)
            [] item.kind = "Export" -> WriteExport(w, item.value)
            [] item.kind = "Start" -> WriteStart(w, item.value)
            [] item.kind = "ElementSegment" -> WriteElementSegment(w, item.value)
            [] item.kind = "DataSegment" -> WriteDataSegment(w, item.value)
            [] item.kind = "Event" -> WriteEvent(w, item.value))

\* Write(Module): WriteVector, from item i on.
RECURSIVE WriteModuleFrom(_, _, _)
WriteModuleFrom(w, items, i) ==
  IF i > Len(items) THEN w
  ELSE WriteModuleFrom(The({WriteModuleItem(x, items[i]) : x \in {w}}), items, i + 1)
WriteModule(w, items) == WriteModuleFrom(w, items, 1)


\* ------------------------------------------------------------ the scripts

KwModule == <<"m", "o", "d", "u", "l", "e">>
KwBinary == <<"b", "i", "n", "a", "r", "y">>
KwQuote == <<"q", "u", "o", "t", "e">>
KwInvoke == <<"i", "n", "v", "o", "k", "e">>
KwGet == <<"g", "e", "t">>
KwRegister == <<"r", "e", "g", "i", "s", "t", "e", "r">>
KwRefExtern == <<"r", "e", "f", ".", "e", "x", "t", "e", "r", "n">>
KwRefFunc == <<"r", "e", "f", ".", "f", "u", "n", "c">>
KwNanArithmetic == <<"n", "a", "n", ":", "a", "r", "i", "t", "h", "m", "e", "t", "i", "c">>
KwNanCanonical == <<"n", "a", "n", ":", "c", "a", "n", "o", "n", "i", "c", "a", "l">>

\* Write(Const): a u32, a RefNullConst or a RefExternConst.
WriteConst(w, value) ==
  The({WriteRpar(b) :
       b \in {The({CASE value.kind = "u32" ->
                          WriteInt(WriteOpcode(a, "const"), value.value)
                     [] value.kind = "ref.null" -> WriteOpcode(a, "ref.null")
                     [] value.kind = "ref.extern" ->
                          WriteVar(WriteString(a, KwRefExtern), value.var) :
       a \in {WriteLpar(w)}})}})

\* Write(ConstList): WriteVector, from const i on.
RECURSIVE WriteConstsFrom(_, _, _)
WriteConstsFrom(w, values, i) ==
  IF i > Len(values) THEN w
  ELSE WriteConstsFrom(The({WriteConst(x, values[i]) : x \in {w}}), values, i + 1)
WriteConstList(w, values) == WriteConstsFrom(w, values, 1)

\* Write(optional<Var>)
WriteOptVar(w, var) == IF var = None THEN w ELSE WriteVar(w, var[1])

\* Write(InvokeAction), Write(GetAction), Write(Action)
WriteInvokeAction(w, value) ==
  The({WriteRpar(c) :
       c \in {The({WriteConstList(b, value.consts) :
       b \in {The({WriteText(a, value.name) :
       a \in {WriteOptVar(WriteLparName(w, KwInvoke), value.module)}})}})}})
WriteGetAction(w, value) ==
  The({WriteRpar(b) :
       b \in {The({WriteText(a, value.name) :
       a \in {WriteOptVar(WriteLparName(w, KwGet), value.module)}})}})
WriteAction(w, value) ==
  IF value.kind = "invoke" THEN WriteInvokeAction(w, value.value)
  ELSE IF value.kind = "get" THEN WriteGetAction(w, value.value)
  ELSE w

\* Write(ScriptModule): value.module is the Module of a text module,
\* value.texts the TextList of a binary or quoted one.
WriteScriptModuleMutNoDedent(w, value) ==
  The({WriteRpar(b) :
       b \in {The({CASE value.kind = "Text" ->
                          The({WriteModule(y, value.module) :
                               y \in {Newline(Indent(a))}})
                     [] value.kind = "Binary" ->
                          WriteTextsFrom(WriteString(a, KwBinary), value.texts, 1)
                     [] value.kind = "Quote" ->
                          WriteTextsFrom(WriteString(a, KwQuote), value.texts, 1) :
       a \in {WriteOptName(WriteLparName(w, KwModule), value.name)}})}})
WriteScriptModule(w, value) ==
  The({WriteRpar(b) :
       b \in {The({CASE value.kind = "Text" ->
                          Dedent(The({WriteModule(y, value.module) :
                               y \in {Newline(Indent(a))}}))
                     [] value.kind = "Binary" ->
                          WriteTextsFrom(WriteString(a, KwBinary), value.texts, 1)
                     [] value.kind = "Quote" ->
                          WriteTextsFrom(WriteString(a, KwQuote), value.texts, 1) :
       a \in {WriteOptName(WriteLparName(w, KwModule), value.name)}})}})

\* Write(ModuleAssertion), Write(ActionAssertion)
WriteModuleAssertion(w, value) ==
  WriteText(Newline(The({WriteScriptModule(x, value.module) : x \in {w}})),
            value.message)
WriteActionAssertion(w, value) ==
  WriteText(The({WriteAction(x, value.action) : x \in {w}}), value.message)

\* Write(NanKind)
WriteNanKind(w, value) ==
  IF value = "Arithmetic" THEN WriteString(w, KwNanArithmetic)
  ELSE WriteString(w, KwNanCanonical)

\* Write(ReturnResult): a u32, an F32Result that is a NanKind, a
\* RefNullConst, a RefExternConst, a RefExternResult or a RefFuncResult.
WriteReturnResult(w, value) ==
  The({WriteRpar(b) :
       b \in {The({CASE value.kind = "u32" ->
                          WriteInt(WriteOpcode(a, "const"), value.value)
                     [] value.kind = "f32nan" ->
                          WriteNanKind(WriteOpcode(a, "fconst"), value.nan)
                     [] value.kind = "ref.null" -> WriteOpcode(a, "ref.null")
                     [] value.kind = "ref.extern" ->
                          WriteNat(WriteString(a, KwRefExtern), value.var.index)
                     [] value.kind = "ref.extern.result" -> WriteString(a, KwRefExtern)
                     [] value.kind = "ref.func" -> WriteString(a, KwRefFunc) :
       a \in {WriteLpar(w)}})}})

\* Write(ReturnResultList): WriteVector, from result i on.
RECURSIVE WriteReturnResultsFrom(_, _, _)
WriteReturnResultsFrom(w, values, i) ==
  IF i > Len(values) THEN w
  ELSE WriteReturnResultsFrom(The({WriteReturnResult(x, values[i]) : x \in {w}}),
                              values, i + 1)

\* Write(ReturnAssertion)
WriteReturnAssertion(w, value) ==
  WriteReturnResultsFrom(The({WriteAction(x, value.action) : x \in {w}}),
                         value.results, 1)

\* Write(Assertion)
AssertionText(kind) ==
  CASE kind = "Malformed" -> <<"a", "s", "s", "e", "r", "t", "_", "m", "a", "l", "f", "o", "r", "m", "e", "d">>
    [] kind = "Invalid" -> <<"a", "s", "s", "e", "r", "t", "_", "i", "n", "v", "a", "l", "i", "d">>
    [] kind = "Unlinkable" -> <<"a", "s", "s", "e", "r", "t", "_", "u", "n", "l", "i", "n", "k", "a", "b", "l", "e">>
    [] kind = "ActionTrap" -> <<"a", "s", "s", "e", "r", "t", "_", "t", "r", "a", "p">>
    [] kind = "Return" -> <<"a", "s", "s", "e", "r", "t", "_", "r", "e", "t", "u", "r", "n">>
    [] kind = "ModuleTrap" -> <<"a", "s", "s", "e", "r", "t", "_", "t", "r", "a", "p">>
    [] kind = "Exhaustion" -> <<"a", "s", "s", "e", "r", "t", "_", "e", "x", "h", "a", "u", "s", "t", "i", "o", "n">>
WriteAssertion(w, value) ==
  The({WriteRpar(b) :
       b \in {The({CASE value.kind \in {"Malformed", "Invalid", "Unlinkable",
                                        "ModuleTrap"} ->
                          Dedent(The({WriteModuleAssertion(y, value.desc) :
                                        y \in {Newline(Indent(a))}}))
                     [] value.kind \in {"ActionTrap", "Exhaustion"} ->
                          WriteActionAssertion(a, value.desc)
                     [] value.kind = "Return" ->
                          WriteReturnAssertion(a, value.desc) :
       a \in {WriteLparName(w, AssertionText(value.kind))}})}})

\* Write(Register)
WriteRegister(w, value) ==
  WriteRpar(WriteOptVar(WriteText(WriteLparName(w, KwRegister), value.name),
                        value.module))

\* Write(Command): the command, then Newline.
WriteCommand(w, value) ==
  Newline(CASE value.kind = "ScriptModule" -> WriteScriptModule(w, value.value)
            [] value.kind = "Register" -> WriteRegister(w, value.value)
            [] value.kind = "Action" -> WriteAction(w, value.value)
            [] value.kind = "Assertion" -> WriteAssertion(w, value.value))


\* ---------------------------------------------- the calls of the scripts

Block == [opcode |-> "block", immediate |-> BlockImmediate]
Let == [opcode |-> "let", immediate |-> LetImmediate]
End == [opcode |-> "end", immediate |-> NoImmediate]

\* Functions with a body of none, one, and nested instructions.
ScriptBodies == {<<>>, <<Nop>>, <<Block, Nop, End>>, <<Let, End>>}
ScriptFunctions ==
  {[desc |-> [name |-> None, type_use |-> None,
              type |-> [params |-> <<>>, results |-> <<>>]],
    exports |-> <<>>, import |-> None,
    locals |-> <<[name |-> None, type |-> "i32"]>>, instructions |-> b] :
     b \in ScriptBodies}

\* One import of each kind.
Imports ==
  {[module |-> TextOf("m"), name |-> TextOf("n"), kind |-> "Function",
    desc |-> [name |-> None, type_use |-> Some(Idx(0)),
              type |-> [params |-> <<[name |-> None, type |-> "i32"]>>,
                        results |-> <<"f32">>]]],
   [module |-> TextOf("m"), name |-> TextOf("n"), kind |-> "Table",
    desc |-> [name |-> None, type |-> TheTableType]],
   [module |-> TextOf("m"), name |-> TextOf("n"), kind |-> "Memory",
    desc |-> [name |-> None, type |-> TheMemoryType]],
   [module |-> TextOf("m"), name |-> TextOf("n"), kind |-> "Global",
    desc |-> [name |-> Some(<<"$", "f">>), type |-> [mut |-> TRUE, valtype |-> "i32"]]],
   [module |-> TextOf("m"), name |-> TextOf("n"), kind |-> "Event",
    desc |-> [name |-> None, type |-> TheEventType]]}

\* Data segments of each type, with and without a memory use and an offset.
DataSegments ==
  {[type |-> ty, name |-> n, memory |-> m, offset |-> o, data |-> <<TextOf("d")>>] :
     ty \in {"Active", "Passive"}, n \in BindVars, m \in TableUses,
     o \in {None, Some(<<Nop>>)}}

Item(kind, value) == [kind |-> kind, value |-> value]
ModuleItems ==
  {Item("Function", f) : f \in ScriptFunctions}
    \cup {Item("Import", i) : i \in Imports}
    \cup {Item("DataSegment", d) :
            d \in {x \in DataSegments : x.name = None /\ x.memory # None /\ x.offset # None}}
    \cup {Item("TypeEntry",
               [bind_var |-> None,
                type |-> [params |-> <<[name |-> Some(<<"$", "f">>), type |-> "i32"],
                                       [name |-> None, type |-> "i32"]>>,
                          results |-> <<"f32">>]]),
          Item("Table", [desc |-> [name |-> None, type |-> TheTableType],
                         exports |-> <<[name |-> TextOf("e")]>>, import |-> None,
                         elements |-> Some([with_vars |-> FALSE, elemtype |-> "funcref",
                                            list |-> <<Nop>>])]),
          Item("Memory", [desc |-> [name |-> None, type |-> TheMemoryType],
                          exports |-> <<>>,
                          import |-> Some([module |-> TextOf("m"), name |-> TextOf("n")]),
                          data |-> None]),
          Item("Global", [desc |-> [name |-> None, type |-> [mut |-> TRUE, valtype |-> "i32"]],
                          exports |-> <<>>, import |-> None, init |-> <<Nop>>]),
          Item("Export", [name |-> TextOf("e"), kind |-> "Function", var |-> Idx(0)]),
          Item("Start", [var |-> Idx(0)]),
          Item("ElementSegment",
               [type |-> "Active", name |-> None, table |-> Some(Idx(0)),
                offset |-> Some(<<Nop>>),
                elements |-> [with_vars |-> TRUE, kind |-> "Function",
                              list |-> <<Idx(0)>>]]),
          Item("Event", [desc |-> [name |-> None, type |-> TheEventType],
                         exports |-> <<>>, import |-> None])}
\* The text modules: none, one, and two items.
ScriptModuleTexts ==
  {<<>>} \cup {<<i>> : i \in ModuleItems}
    \cup {<<Item("Function", f), Item("Function", g)>> :
            f, g \in {x \in ScriptFunctions : x.instructions # <<>>}}

ScriptModules ==
  {[name |-> None, kind |-> "Text", module |-> m, texts |-> <<>>] :
     m \in ScriptModuleTexts}
    \cup {[name |-> Some(<<"$", "f">>), kind |-> k, module |-> <<>>,
            texts |-> <<TextOf("d")>>] : k \in {"Binary", "Quote"}}

\* The modules of the assertions: of each kind, and text modules with
\* instructions on lines of their own.
AssertedModules ==
  {m \in ScriptModules :
     \/ m.kind # "Text"
     \/ m.module \in {<<>>} \cup {<<Item("Function", f)>> : f \in ScriptFunctions}}

Consts == {[kind |-> "u32", value |-> 4], [kind |-> "ref.null"],
           [kind |-> "ref.extern", var |-> Idx(0)]}
InvokeActions ==
  {[module |-> m, name |-> TextOf("n"), consts |-> c] :
     m \in {None, Some(Idx(0))},
     c \in {<<>>} \cup {<<x, [kind |-> "u32", value |-> 0]>> : x \in Consts}}
Actions ==
  {[kind |-> "invoke", value |-> v] :
     v \in {x \in InvokeActions : x.module = None \/ x.consts = <<>>}}
    \cup {[kind |-> "get", value |-> [module |-> None, name |-> TextOf("n")]],
          [kind |-> "none"]}
ReturnResults ==
  {[kind |-> "u32", value |-> 4], [kind |-> "f32nan", nan |-> "Arithmetic"],
   [kind |-> "f32nan", nan |-> "Canonical"], [kind |-> "ref.null"],
   [kind |-> "ref.extern", var |-> Idx(0)], [kind |-> "ref.extern.result"],
   [kind |-> "ref.func"]}
Assertions ==
  {[kind |-> k, desc |-> [module |-> m, message |-> TextOf("x")]] :
     k \in {"Malformed", "Invalid", "Unlinkable", "ModuleTrap"}, m \in AssertedModules}
    \cup {[kind |-> k, desc |-> [action |-> a, message |-> TextOf("x")]] :
            k \in {"ActionTrap", "Exhaustion"}, a \in Actions}
    \cup {a \in {[kind |-> "Return", desc |-> [action |-> a, results |-> r]] :
                   a \in Actions,
                   r \in {<<>>} \cup {<<x, [kind |-> "ref.func"]>> : x \in ReturnResults}} :
            a.desc.action.kind = "get" \/ a.desc.results = <<>>}
Registers == {[name |-> TextOf("n"), module |-> m] : m \in {None, Some(Idx(0))}}
Commands ==
  {Item("ScriptModule", m) : m \in AssertedModules}
    \cup {Item("Register", r) : r \in Registers}
    \cup {Item("Action", a) : a \in Actions}
    \cup {Item("Assertion", a) :
            a \in {x \in Assertions :
                     \/ x.kind \in {"Malformed", "Invalid", "Unlinkable", "ModuleTrap"}
                          /\ x.desc.module.kind = "Text"
                          /\ Len(x.desc.module.module) = 1
                          /\ x.desc.module.module[1].value.instructions = <<Nop>>
                     \/ x.kind \in {"ActionTrap", "Exhaustion", "Return"}
                          /\ x.desc.action.kind = "get"}}

CallWriteScriptFunction ==
  /\ Writing
  /\ lastcall' = "WriteFunction"
  /\ \E f \in ScriptFunctions :
       /\ lastarg' = Some(f)
       /\ WriterCall(WriteFunction(W, f))
CallWriteModuleItem ==
  /\ Writing
  /\ lastcall' = "WriteModuleItem"
  /\ \E item \in ModuleItems :
       /\ lastarg' = Some(item)
       /\ WriterCall(WriteModuleItem(W, item))
CallWriteScriptModule ==
  /\ Writing
  /\ lastcall' = "WriteScriptModule"
  /\ \E m \in ScriptModules :
       /\ lastarg' = Some(m)
       /\ WriterCall(WriteScriptModule(W, m))
CallWriteAssertion ==
  /\ Writing
  /\ lastcall' = "WriteAssertion"
  /\ \E a \in Assertions :
       /\ lastarg' = Some(a)
       /\ WriterCall(WriteAssertion(W, a))
CallWriteCommand ==
  /\ Writing
  /\ lastcall' = "WriteCommand"
  /\ \E c \in Commands :
       /\ lastarg' = Some(c)
       /\ WriterCall(WriteCommand(W, c))

NextS ==
  \/ CallIndent
  \/ CallNewline
  \/ CallWriteScriptFunction
  \/ CallWriteModuleItem
  \/ CallWriteScriptModule
  \/ CallWriteAssertion
  \/ CallWriteCommand

SpecS == Init /\ [][NextS]_vars

\* ------------------------------------------------------ the calls of the segments

\* Element segments of each type with every choice of a table use and an
\* offset: the fields are there whatever the type is.
AnyElementSegments ==
  {[type |-> ty, name |-> n, table |-> t, offset |-> o, elements |-> e] :
     ty \in {"Active", "Passive", "Declared"}, n \in BindVars, t \in TableUses,
     o \in {None, Some(<<Nop>>)}, e \in ElementLists}

CallWriteAnyElementSegment ==
  /\ Writing
  /\ lastcall' = "WriteElementSegment"
  /\ \E s \in AnyElementSegments :
       /\ lastarg' = Some(s)
       /\ WriterCall(WriteElementSegment(W, s))
CallWriteDataSegment ==
  /\ Writing
  /\ lastcall' = "WriteDataSegment"
  /\ \E s \in DataSegments :
       /\ lastarg' = Some(s)
       /\ WriterCall(WriteDataSegment(W, s))

\* Write(ElementSegment) and Write(DataSegment) with nothing, a space and
\* a newline pending.
NextG ==
  \/ CallNewline
  \/ CallWriteAnyElementSegment
  \/ CallWriteDataSegment

SpecG == Init /\ [][NextG]_vars

NextW ==
  \/ CallClearSeparator
  \/ CallSpace
  \/ CallNewline
  \/ CallIndent
  \/ CallDedent
  \/ CallWriteSeparator
  \/ CallWriteString
  \/ CallWriteFormat
  \/ CallWriteLpar
  \/ CallWriteLparName
  \/ CallWriteRpar
  \/ CallWriteInstruction
  \/ CallWriteWithNewlines
  \/ CallWriteNat
  \/ CallWriteInt
  \/ CallWriteFloat
  \/ CallWriteVar
  \/ CallWriteValueType
  \/ CallWriteOpcode
  \/ CallWriteMemArg

SpecW == Init /\ [][NextW]_vars

\* C10 helper: a newline followed by spaces only.
NewlineThenSpaces(str) ==
  /\ Len(str) >= 1
  /\ str[1] = NL
  /\ \A k \in 2..Len(str) : str[k] = SP

\* C10: the pending separator is empty, one space, or a newline followed
\* by spaces; the indent is a newline followed by two spaces for each
\* Indent that no Dedent has undone.
C10_ContextShape ==
  /\ \/ wctx.separator = <<>>
     \/ wctx.separator = <<SP>>
     \/ NewlineThenSpaces(wctx.separator)
  /\ NewlineThenSpaces(wctx.indent)
  /\ (Len(wctx.indent) - 1) % 2 = 0
  /\ wctx.level >= 0
  /\ Len(wctx.indent) = 1 + 2 * wctx.level

\* C10 witness: after an Indent and a Dedent have both acted, a newline
\* separator of a deeper level is pending while the indent is one level
\* deep.
C10_Witness ==
  /\ wctx.level = 1
  /\ wctx.indent = <<NL, SP, SP>>
  /\ wctx.separator = <<NL, SP, SP, SP, SP>>

\* C11 helper: the step appended the pending separator and then the token
\* t, and left one space pending.
TokenWritten(t) ==
  /\ out' = wctx.separator \o t
  /\ wctx'.separator = <<SP>>
  /\ ~thrown'

\* C11 helper: the step is the call that leaves w.
IsCall(w) == Writing /\ WriterCall(w)

\* C11: each token writer appends the pending separator followed by its
\* token and leaves a single space pending; ClearSeparator, Space,
\* Newline, Indent and Dedent append nothing.
C11_TokenWriters ==
  [][/\ \A t \in Tokens : IsCall(WriteString(W, t)) => TokenWritten(t)
     /\ \A n \in Numbers : IsCall(WriteFormat(W, Format(n))) => TokenWritten(Format(n))
     /\ \A n \in Numbers : IsCall(WriteNat(W, n)) => TokenWritten(Format(n))
     /\ \A n \in Ints : IsCall(WriteInt(W, n)) => TokenWritten(IntToStr(n))
     /\ \A f \in Floats : IsCall(WriteFloat(W, f)) => TokenWritten(FloatToStr(f))
     /\ \A v \in Vars :
          IsCall(WriteVar(W, v))
          => TokenWritten(IF v.is_index THEN Format(v.index) ELSE v.name)
     /\ \A vt \in ValueTypes :
          IsCall(WriteValueType(W, vt)) => TokenWritten(ValueTypeText(vt))
     /\ \A o \in Opcodes : IsCall(WriteOpcode(W, o)) => TokenWritten(OpcodeText(o))
     /\ (CallClearSeparator \/ CallSpace \/ CallNewline \/ CallIndent \/ CallDedent)
          => out' = <<>>
    ]_vars

\* C11 witness: a value type was written while a newline and one level of
\* indent were pending.
C11_Witness ==
  /\ out = <<NL, SP, SP, "i", "3", "2">>
  /\ wctx.separator = <<SP>>

\* C12 helper: what a step does when it is WriteLpar, the keyword form
\* of WriteLpar, or WriteRpar.
ParenSteps ==
  /\ IsCall(WriteLpar(W))
       => /\ out' = wctx.separator \o <<"(">>
          /\ wctx'.separator = <<>>
  /\ \A t \in Tokens :
       IsCall(WriteLparName(W, t))
       => /\ out' = wctx.separator \o <<"(">> \o t
          /\ wctx'.separator = <<SP>>
  /\ IsCall(WriteRpar(W))
       => /\ out' = <<")">>
          /\ wctx'.separator = <<SP>>

\* C12 helper: the text str has no space or newline directly after a '('
\* and none directly before a ')'.
NoSeparatorInsideParens(str) ==
  \A k \in 1..(Len(str) - 1) :
    /\ ~(str[k] = "(" /\ str[k + 1] \in {SP, NL})
    /\ ~(str[k + 1] = ")" /\ str[k] \in {SP, NL})

\* C12 helper: what this step puts out, with the character before it.
Seam == IF tail = "" THEN out' ELSE <<tail>> \o out'

\* C12 helper: the writers that write a token or a parenthesis.
PlainCalls ==
  {"WriteString", "WriteFormat", "WriteNat", "WriteInt", "WriteFloat",
   "WriteVar", "WriteValueType", "WriteOpcode", "WriteInstruction",
   "WriteLpar", "WriteLparName", "WriteRpar"}

\* C12 as first stated: WriteLpar and WriteRpar treat the separator as
\* described, and in the output of any sequence of writer calls no
\* separator follows a '(' directly and none precedes a ')' directly.
C12_Parens == [][ParenSteps /\ NoSeparatorInsideParens(Seam)]_vars

\* C12 as amended: WriteLpar and WriteRpar treat the separator as
\* described, and no separator follows a '(' or precedes a ')' directly
\* in what a token writer, WriteLpar or WriteRpar puts out when the call
\* before it was one of these too (or it is the first call).
C12_ParensPlainCalls ==
  [][/\ ParenSteps
     /\ (lastcall \in PlainCalls \cup {""} /\ lastcall' \in PlainCalls)
          => NoSeparatorInsideParens(Seam)
    ]_vars

\* C12 witness: WriteLpar has put out a pending newline and indent and
\* then '(', and left nothing pending.
C12_Witness ==
  /\ lastcall = "WriteLpar"
  /\ out = <<NL, SP, SP, "(">>
  /\ wctx.separator = <<>>

\* C13 helper: n spaces.
Spaces(n) == [k \in 1..n |-> SP]

\* C13 helper: the instructions that open a block, and how many blocks
\* are open after the first n instructions of a list.
BlockOpening == {"block", "loop", "if", "try", "let"}
RECURSIVE OpenAfter(_, _)
OpenAfter(l, n) ==
  IF n = 0 THEN 0
  ELSE OpenAfter(l, n - 1)
       + (IF l[n].opcode \in BlockOpening THEN 1
          ELSE IF l[n].opcode = "end" THEN -1 ELSE 0)

\* C13 helper: a list is well nested when every end and else has a block
\* open before it and no block is left open.
WellNested(l) ==
  /\ \A n \in 1..Len(l) :
       l[n].opcode \in {"end", "else", "catch"} => OpenAfter(l, n - 1) >= 1
  /\ OpenAfter(l, Len(l)) = 0

\* C13 helper: how many levels above the entry indent instruction n of a
\* list is to be written: one for each block open around it; else, catch
\* and end stand at the level of the instruction that opened their block.
DepthOf(l, n) ==
  IF l[n].opcode \in {"end", "else", "catch"}
  THEN OpenAfter(l, n - 1) - 1
  ELSE OpenAfter(l, n - 1)

\* C13 helper: the text the claim describes for a list: the first
\* instruction after the separator pending at entry, every other one on a
\* line of its own at its depth.
RECURSIVE LinesFrom(_, _, _)
LinesFrom(l, n, entry) ==
  IF n > Len(l) THEN <<>>
  ELSE (IF n = 1 /\ DepthOf(l, 1) = 0 THEN entry.separator
        ELSE entry.indent \o Spaces(2 * DepthOf(l, n)))
       \o OpcodeText(l[n].opcode)
       \o LinesFrom(l, n + 1, entry)

\* C13: WriteWithNewlines of a well-nested list puts out each instruction
\* on a line of its own at the entry indent plus one level for each block
\* open around it (block, loop, if, try and let open one), and leaves a
\* newline pending at the entry indent.
C13_WriteWithNewlines ==
  [][\A l \in InstructionLists :
       (lastcall' = "WriteWithNewlines" /\ WellNested(l) /\ l # <<>>
          /\ IsCall(WriteWithNewlines(W, l)))
       => /\ ~thrown'
          /\ out' = LinesFrom(l, 1, wctx)
          /\ wctx'.indent = wctx.indent
          /\ wctx'.separator = wctx.indent
    ]_vars

\* C13 helper: the same for the lists without let.
C13_WithoutLet ==
  [][\A l \in InstructionLists :
       (lastcall' = "WriteWithNewlines" /\ WellNested(l) /\ l # <<>>
          /\ (\A n \in 1..Len(l) : l[n].opcode # "let")
          /\ IsCall(WriteWithNewlines(W, l)))
       => /\ ~thrown'
          /\ out' = LinesFrom(l, 1, wctx)
          /\ wctx'.indent = wctx.indent
          /\ wctx'.separator = wctx.indent
    ]_vars


\* ---------------------------------------------------------------- C14

\* Where a text occurs in an output: the places it starts at.
Places(str, pat) ==
  {i \in 1..(Len(str) + 1 - Len(pat)) : SubSeq(str, i, i + Len(pat) - 1) = pat}

\* C14 helper: parts is a sequence of <<text, present>>. The output holds
\* exactly the texts that are present, and every occurrence of an earlier
\* part stands before every occurrence of a later one.
PartsInOrder(str, parts) ==
  LET at == [k \in 1..Len(parts) |-> Places(str, parts[k][1])]
  IN /\ \A k \in 1..Len(parts) : (at[k] # {}) <=> parts[k][2]
     /\ \A j, k \in 1..Len(parts) :
          j < k => \A a \in at[j], b \in at[k] : a < b

LparExport == <<"(", "e", "x", "p", "o", "r", "t">>
LparImport == <<"(", "i", "m", "p", "o", "r", "t">>
LparType == <<"(", "t", "y", "p", "e">>
NameOf(value) == IF value.desc.name = None THEN <<"$">> ELSE value.desc.name[1]

\* C14 helper: the parts of a function in the order of the claim.
FunctionParts(f) ==
  <<<<(<<"(">> \o KwFunc), TRUE>>,
    <<NameOf(f), f.desc.name # None>>,
    <<LparExport, f.exports # <<>>>>,
    <<LparImport, f.import # None>>,
    <<LparType, f.desc.type_use # None>>,
    <<(<<"(">> \o KwParam), f.desc.type.params # <<>>>>,
    <<(<<"(">> \o KwResult), f.desc.type.results # <<>>>>,
    <<(<<"(">> \o KwLocal), f.import = None /\ f.locals # <<>>>>,
    <<OpcodeText("nop"), f.import = None /\ f.instructions # <<>>>>>>

\* C14 helper: the parts of a table, memory, global or event: the keyword,
\* the bind var, the inline exports, the inline import, and the text the
\* type starts with (typed is whether a type is written at all).
ItemParts(value, keyword, type, typed) ==
  <<<<(<<"(">> \o keyword), TRUE>>,
    <<NameOf(value), value.desc.name # None>>,
    <<LparExport, value.exports # <<>>>>,
    <<LparImport, value.import # None>>,
    <<type, typed>>>>

\* C14 helper: what the type of a table, a memory and a global starts with.
TableTypeStart(t) ==
  IF t.import = None /\ t.elements # None
  THEN ReferenceTypeText(t.desc.type.elemtype)
  ELSE IntToStr(t.desc.type.limits.min)
GlobalTypeStart(g) ==
  IF g.desc.type.mut THEN <<"(", "m", "u", "t">>
  ELSE ValueTypeText(g.desc.type.valtype)

\* C14: Write(Function) writes '(func', the bind var, the inline exports
\* (one for each), the inline import, the type use, the bound parameters
\* and the results in this order, and then, only when there is no inline
\* import, the locals and the instructions; Write(Table), Write(Memory),
\* Write(Global) and Write(Event) write the bind var, the inline exports
\* and the inline import before the type.
C14_ItemPartOrder ==
  /\ lastcall = "WriteFunction" =>
       /\ PartsInOrder(out, FunctionParts(lastarg[1]))
       /\ Cardinality(Places(out, LparExport)) = Len(lastarg[1].exports)
  /\ lastcall = "WriteTable" =>
       PartsInOrder(out, ItemParts(lastarg[1], KwTable,
                                   TableTypeStart(lastarg[1]), TRUE))
  /\ lastcall = "WriteMemory" =>
       PartsInOrder(out,
                    ItemParts(lastarg[1], KwMemory,
                              IntToStr(lastarg[1].desc.type.limits.min),
                              lastarg[1].import # None \/ lastarg[1].data = None))
  /\ lastcall = "WriteGlobal" =>
       PartsInOrder(out, ItemParts(lastarg[1], KwGlobal,
                                   GlobalTypeStart(lastarg[1]), TRUE))
  /\ lastcall = "WriteEvent" =>
       PartsInOrder(out, ItemParts(lastarg[1], KwEvent, LparType, TRUE))

\* C14 witness: a function with a bind var, two inline exports, a type use,
\* a parameter, a result, a local and an instruction has been written.
C14_Witness ==
  /\ lastcall = "WriteFunction"
  /\ lastarg[1].desc.name # None
  /\ Len(lastarg[1].exports) = 2
  /\ lastarg[1].import = None
  /\ lastarg[1].desc.type_use # None
  /\ lastarg[1].desc.type.params # <<>>
  /\ lastarg[1].locals # <<>>
  /\ lastarg[1].instructions # <<>>
  /\ Cardinality(Places(out, LparExport)) = 2
  /\ PartsInOrder(out, FunctionParts(lastarg[1]))


\* ---------------------------------------------------------------- C15

\* C15 helper: the kind keyword of a var list as a token of its own in the
\* output, and the list's var.
KindToken(kind) == <<SP>> \o ExternalKindText(kind) \o <<SP>>
ListVar == <<"$", "v">>

\* C15 helper: the segment written last has a var list and its kind is
\* written once, before the list; or it is not written.
KindBeforeList ==
  /\ Cardinality(Places(out, KindToken(lastarg[1].elements.kind))) = 1
  /\ \A k \in Places(out, KindToken(lastarg[1].elements.kind)),
        l \in Places(out, ListVar) : k < l
  /\ Places(out, ListVar) # {}
KindOmitted ==
  /\ Places(out, KindToken(lastarg[1].elements.kind)) = {}
  /\ Places(out, ListVar) # {}
WroteVarSegment ==
  lastcall = "WriteElementSegment" /\ lastarg[1].elements.with_vars

\* C15 as stated: every segment with a var list of kind function, no table
\* use and no bind var is written without the func keyword, and every
\* segment with a table use, a bind var or another kind has the kind
\* keyword before the list.
C15_LegacyForm ==
  WroteVarSegment =>
    IF /\ lastarg[1].elements.kind = "Function"
       /\ lastarg[1].table = None
       /\ lastarg[1].name = None
    THEN KindOmitted
    ELSE KindBeforeList

\* C15 amended: the func keyword is omitted exactly for the active segments
\* with a var list of kind function, no table use and no bind var; every
\* other segment with a var list, the passive and the declared ones
\* included, has the kind keyword before the list.
C15_LegacyFormActive ==
  WroteVarSegment =>
    IF /\ lastarg[1].type = "Active"
       /\ lastarg[1].elements.kind = "Function"
       /\ lastarg[1].table = None
       /\ lastarg[1].name = None
    THEN KindOmitted
    ELSE KindBeforeList

\* C15 witness: an active segment was written in the legacy form, without
\* the func keyword.
C15_Witness ==
  /\ WroteVarSegment
  /\ lastarg[1].type = "Active"
  /\ lastarg[1].elements.kind = "Function"
  /\ lastarg[1].table = None
  /\ lastarg[1].name = None
  /\ KindOmitted


\* ---------------------------------------------------------------- C16

\* C16 helper: the bare list of an inline element list as the claim
\* describes it: the vars, or the expressions each in parentheses, with
\* neither the element kind nor a reference type.
RECURSIVE BareList(_, _)
BareList(elements, i) ==
  IF i > Len(elements.list) THEN <<>>
  ELSE (IF elements.with_vars
        THEN <<SP>> \o (IF elements.list[i].is_index
                        THEN NatToStr(elements.list[i].index)
                        ELSE elements.list[i].name)
        ELSE <<SP, "(">> \o OpcodeText(elements.list[i].opcode) \o <<")">>)
       \o BareList(elements, i + 1)

\* C16 helper: str ends with suffix.
EndsWith(str, suffix) ==
  /\ Len(suffix) <= Len(str)
  /\ SubSeq(str, Len(str) - Len(suffix) + 1, Len(str)) = suffix

MemArgText(m, sep) ==
  (IF m.offset THEN sep \o OffsetEq \o Format(1) ELSE <<>>)
  \o (IF m.align
      THEN (IF m.offset THEN <<SP>> ELSE sep) \o AlignEq \o Format(2)
      ELSE <<>>)

\* C17: Write(MemArgImmediate) writes offset= with the offset right after
\* it, then align= with the alignment right after it, one separator
\* between the two; an absent attribute writes nothing; afterwards a single
\* space is pending when an attribute was written, and what was pending
\* before when none was.
C17_MemArg ==
  [][lastcall' = "WriteMemArg" =>
       /\ out' = MemArgText(lastarg'[1], wctx.separator)
       /\ wctx'.separator =
            IF lastarg'[1].offset \/ lastarg'[1].align
            THEN <<SP>> ELSE wctx.separator
       /\ wctx'.indent = wctx.indent
    ]_vars

\* C17 witness: both attributes were written on a new line.
C17_Witness ==
  /\ lastcall = "WriteMemArg"
  /\ out = <<NL, "o", "f", "f", "s", "e", "t", "=", "1", " ",
             "a", "l", "i", "g", "n", "=", "2">>
  /\ wctx.separator = <<SP>>


\* ---------------------------------------------------------------- C18

\* C18 helper: the tokens of an immediate, as its kind's writer puts them
\* out: what the claim expects after the opcode.
VarToken(var) == IF var.is_index THEN NatToStr(var.index) ELSE var.name
ImmediateTokens(imm) ==
  CASE imm.kind = "none" -> <<>>
    [] imm.kind = "s32" -> <<IntToStr(imm.value)>>
    [] imm.kind = "f32" -> <<FloatToStr(imm.value)>>
    [] imm.kind = "var" -> <<VarToken(imm.var)>>
    [] imm.kind = "block" -> <<>>
    [] imm.kind = "br_on_exn" -> <<VarToken(imm.target), VarToken(imm.event)>>
    [] imm.kind = "br_table" ->
         [k \in 1..Len(imm.targets) |-> VarToken(imm.targets[k])]
         \o <<VarToken(imm.default_target)>>
    [] imm.kind = "call_indirect" ->
         <<VarToken(imm.table[1]), LparType,
           VarToken(imm.type.type_use[1]) \o <<")">>>>
    [] imm.kind = "copy" -> <<VarToken(imm.dst[1]), VarToken(imm.src[1])>>
    [] imm.kind = "init" ->
         (IF imm.dst # None THEN <<VarToken(imm.dst[1])>> ELSE <<>>)
         \o <<VarToken(imm.segment)>>
    [] imm.kind = "memarg" ->
         (IF imm.offset THEN <<OffsetEq \o Format(1)>> ELSE <<>>)
         \o (IF imm.align THEN <<AlignEq \o Format(2)>> ELSE <<>>)
    [] imm.kind = "reftype" -> <<ReferenceTypeText(imm.type)>>
    [] imm.kind = "select" ->
         [k \in 1..Len(imm.types) |-> ValueTypeText(imm.types[k])]
    [] imm.kind = "let" ->
         [k \in 1..Len(imm.locals) |-> ValueTypeText(imm.locals[k])]

\* C18 helper: tokens in a row, a space before each.
RECURSIVE Spaced(_)
Spaced(tokens) ==
  IF tokens = <<>> THEN <<>>
  ELSE <<SP>> \o Head(tokens) \o Spaced(Tail(tokens))

\* C18 helper: the instruction written last is put out as the pending
\* separator, its opcode and the tokens of its immediate.
OpcodeThenImmediate ==
  out' = wctx.separator \o OpcodeText(lastarg'[1].opcode)
         \o Spaced(ImmediateTokens(lastarg'[1].immediate))

\* C18: Write(Instruction) writes the opcode and then the tokens of the
\* immediate, whatever its kind: nothing for an instruction without
\* immediate, and the immediate's tokens for every kind of the data model.
C18_OpcodeThenImmediate ==
  [][lastcall' = "WriteInstruction" => OpcodeThenImmediate]_vars

\* C18 helper: the same for every instruction but those with a
\* LetImmediate.
C18_WithoutLet ==
  [][(lastcall' = "WriteInstruction" /\ lastarg'[1].immediate.kind # "let")
       => OpcodeThenImmediate]_vars


\* ---------------------------------------------------------------- C19

\* C19 helper: what the last call of the binary writer appended.
Appended == SubSeq(bytes', Len(bytes) + 1, Len(bytes'))

StartsWith(str, prefix) ==
  /\ Len(prefix) <= Len(str)
  /\ SubSeq(str, 1, Len(prefix)) = prefix

\* C20 helper: text is the formatted limits l: {min N, then ", max M" if
\* and only if there is a max, then ", shared" if and only if the limits
\* are shared, then }.
LimitsText(text, l) ==
  /\ StartsWith(text, <<"{", "m", "i", "n", " ">> \o NatToStr(l.min))
  /\ EndsWith(text, <<"}">>)
  /\ (Places(text, <<",", " ", "m", "a", "x", " ">>) # {}) <=> (l.max # None)
  /\ l.max # None =>
       Places(text, <<",", " ", "m", "a", "x", " ">> \o NatToStr(l.max[1])) = {Len(<<"{", "m", "i", "n", " ">> \o NatToStr(l.min)) + 1}
  /\ (Places(text, <<",", " ", "s", "h", "a", "r", "e", "d">>) # {}) <=> l.shared
  /\ l.shared => Places(text, <<",", " ", "s", "h", "a", "r", "e", "d">>) = {Len(text) + 1 - Len(<<",", " ", "s", "h", "a", "r", "e", "d", "}">>)}
  /\ Len(text) = Len(<<"{", "m", "i", "n", " ">> \o NatToStr(l.min))
                 + (IF l.max # None THEN Len(<<",", " ", "m", "a", "x", " ">> \o NatToStr(l.max[1])) ELSE 0)
                 + (IF l.shared THEN Len(<<",", " ", "s", "h", "a", "r", "e", "d">>) ELSE 0) + 1

IdText(id) ==
  IF id \in KnownIds THEN SectionIdName(id) ELSE ToString(SectionIdEncode(id))

FramesInOrder ==
  \A i \in 1..Len(control_stack) :
    /\ control_stack[i].height <= Len(value_stack)
    /\ i > 1 => control_stack[i - 1].height <= control_stack[i].height
TopHeight == control_stack[Len(control_stack)].height
HeightsHold ==
  (valid /\ control_stack # <<>>) =>
    /\ Len(value_stack) >= TopHeight
    /\ FramesInOrder
AnyWithoutPop ==
  (lastcall' = "PopValueExpect" /\ control_stack[Len(control_stack)].unreachable
     /\ Len(value_stack) = TopHeight)
  => (valid' /\ popped' = Some(StackAny) /\ value_stack' = value_stack
        /\ control_stack' = control_stack)
TruncatesToHeight ==
  lastcall' = "Unreachable"
  => (/\ valid'
      /\ value_stack' = SubSeq(value_stack, 1, TopHeight)
      /\ Len(value_stack') = TopHeight
      /\ control_stack' = [control_stack EXCEPT ![Len(control_stack)].unreachable = TRUE])
Op(o) == [op |-> o, type |-> None]
BodyEnded == lastcall = "Validate" /\ control_stack = <<>>
C23_ResultsAtEnd ==
  /\ (BodyEnded /\ valid) =>
       /\ Len(value_stack) >= Len(func_type[1].results)
       /\ SubSeq(value_stack, Len(value_stack) - Len(func_type[1].results) + 1,
                 Len(value_stack)) = func_type[1].results
       /\ Len(value_stack) - Len(func_type[1].results) = 0
  /\ (lastcall = "Validate" /\ func_type[1].results = <<"i32">>
        /\ lastarg = Some(<<Op("i64.const"), Op("end")>>)) => ~valid
C23_Witness ==
  /\ BodyEnded /\ valid
  /\ func_type[1].results = <<"i32">>
  /\ value_stack = <<"i32">>
  /\ lastarg = Some(<<Op("i64.const"), Op("drop"), Op("i32.const"), Op("end")>>)
C23_WitnessInvalid ==
  /\ lastcall = "Validate" /\ ~valid
  /\ func_type[1].results = <<"i32">>
  /\ lastarg = Some(<<Op("i64.const"), Op("end")>>)


\* ---------------------------------------------------------------- C24

\* C24 helpers: the LEB128 sequence at the front of data (up to the first
\* byte without the continuation bit), None when data ends within it; the
\* number it encodes; whether it takes more bytes than the minimal
\* encoding of that number, which is what Write(u32) writes.
RECURSIVE SequenceAtFront(_)
SequenceAtFront(data) ==
  IF data = <<>> THEN None
  ELSE IF data[1] < 128 THEN Some(<<data[1]>>)
  ELSE LET rest == SequenceAtFront(Tail(data))
       IN IF rest = None THEN None ELSE Some(<<data[1]>> \o rest[1])
RECURSIVE Encoded(_)
Encoded(seq) ==
  IF Len(seq) = 1 THEN seq[1] ELSE (seq[1] % 128) + 128 * Encoded(Tail(seq))
NonMinimal(data) ==
  /\ SequenceAtFront(data) # None
  /\ Len(SequenceAtFront(data)[1]) > Len(WriteU32(Encoded(SequenceAtFront(data)[1])))
ReadNonMinimal ==
  /\ lastcall = "ReadUnsignedLEB128"
  /\ NonMinimal(lastarg[1].data)

C25_DedentNeverWraps ==
  [][lastcall' = "WriteWithNewlines"
       => /\ ~thrown'
          /\ Len(wctx'.indent) >= Len(wctx.indent)
    ]_vars


\* ---------------------------------------------------------------- C26

\* C26 helpers: the writers whose instructions stand on lines of their
\* own; the call that was made wrote a let instruction.
LinedWriters == {"WriteFunction", "WriteScriptModule", "WriteAssertion"}
WroteLet == Places(out', <<"l", "e", "t">>) # {}

\* C26: no writer call flushes a newline separator that it has set and
\* that is not the indent at the time of the flush, and Write(Function),
\* Write(ScriptModule) and Write(Assertion) over well-nested instructions
\* return with the indent they were entered with.
C26_IndentRestored ==
  [][/\ ~misflushed'
     /\ lastcall' \in LinedWriters => (~thrown' /\ wctx'.indent = wctx.indent)
    ]_vars

\* C26 helper: the same for the calls that write no let instruction.
C26_WithoutLet ==
  [][/\ ~misflushed'
     /\ (lastcall' \in LinedWriters /\ ~WroteLet)
          => (~thrown' /\ wctx'.indent = wctx.indent)
    ]_vars


\* ---------------------------------------------------------------- C27

\* C27 helpers: how many of the first n characters of an output are c;
\* the parentheses of an output are balanced and properly nested.
CountIn(str, c, n) == Cardinality({i \in 1..n : str[i] = c})
Balanced(str) ==
  /\ CountIn(str, "(", Len(str)) = CountIn(str, ")", Len(str))
  /\ \A n \in 1..Len(str) : CountIn(str, ")", n) <= CountIn(str, "(", n)

\* C27: what Write(ModuleItem) and Write(Command) put out has as many
\* closing as opening parentheses, and no prefix of it has more closing
\* than opening ones.
C27_Balanced ==
  lastcall \in {"WriteModuleItem", "WriteCommand"} => Balanced(out)

\* C27 helper: the same for the calls that did not end in an exception.
C27_BalancedUnlessThrown ==
  (lastcall \in {"WriteModuleItem", "WriteCommand"} /\ ~thrown) => Balanced(out)


\* ---------------------------------------------------------------- C28

\* C28 helpers: the last value of the maximal run of unnamed values that
\* starts at value i; the groups a list is to be written in, from value i
\* on, each as its tokens; tokens with single spaces between them.
RunEnd(values, i) ==
  CHOOSE j \in i..Len(values) :
    /\ \A k \in i..j : values[k].name = None
    /\ j = Len(values) \/ values[j + 1].name # None
RECURSIVE GroupsFrom(_, _)
GroupsFrom(values, i) ==
  IF i > Len(values) THEN <<>>
  ELSE IF values[i].name # None
  THEN <<<<values[i].name[1], ValueTypeText(values[i].type)>>>>
         \o GroupsFrom(values, i + 1)
  ELSE <<[k \in 1..(RunEnd(values, i) - i + 1) |-> ValueTypeText(values[i + k - 1].type)]>>
         \o GroupsFrom(values, RunEnd(values, i) + 1)
RECURSIVE Joined(_)
Joined(tokens) ==
  IF tokens = <<>> THEN <<>>
  ELSE IF Len(tokens) = 1 THEN tokens[1]
  ELSE tokens[1] \o <<SP>> \o Joined(Tail(tokens))
GroupText(prefix, tokens) == <<"(">> \o Joined(<<prefix>> \o tokens) \o <<")">>
GroupTexts(values, prefix) ==
  LET groups == GroupsFrom(values, 1)
  IN [g \in 1..Len(groups) |-> GroupText(prefix, groups[g])]

\* C28: Write(BoundValueTypeList, prefix) writes nothing for the empty
\* list and leaves the context as it was; otherwise it writes, after the
\* pending separator, each named value as a group (prefix $name type) of
\* its own and each maximal run of unnamed values as one group
\* (prefix t1 ... tn), in the order of the list, every group closed, and
\* leaves a space pending.
C28_BoundValueGroups ==
  [][lastcall' = "WriteBoundValueTypes"
       => LET values == lastarg'[1].values
              prefix == lastarg'[1].prefix
          IN /\ ~thrown'
             /\ values = <<>> => (out' = <<>> /\ wctx' = wctx)
             /\ values # <<>>
                  => /\ out' = wctx.separator \o Joined(GroupTexts(values, prefix))
                     /\ wctx' = [wctx EXCEPT !.separator = <<SP>>]
    ]_vars

\* C28 witness: a named value between two runs of unnamed ones was
\* written as three groups.
C28_Witness ==
  /\ lastcall = "WriteBoundValueTypes"
  /\ Len(lastarg[1].values) = 3
  /\ lastarg[1].values[1].name = None
  /\ lastarg[1].values[2].name # None
  /\ lastarg[1].values[3].name = None
  /\ lastarg[1].prefix = KwParam
  /\ Places(out, <<"(", "p", "a", "r", "a", "m">>) # {}
  /\ Cardinality(Places(out, <<"(">>)) = 3
  /\ Cardinality(Places(out, <<")">>)) = 3


\* C29 helper: the parts of an element segment and of a data segment in
\* the order of the claim, each with whether it is to be written.
LparElem == <<"(">> \o KwElem
LparData == <<"(">> \o KwData
LparTable == <<"(">> \o KwTable
LparMemory == <<"(">> \o KwMemory
LparOffset == <<"(">> \o KwOffset
ElementListStart(s) ==
  IF s.elements.with_vars THEN ListVar ELSE <<"f", "u", "n", "c", "r", "e", "f">>
ElementSegmentParts(s) ==
  <<<<LparElem, TRUE>>,
    <<LparTable, s.type = "Active" /\ s.table # None>>,
    <<LparOffset, s.type = "Active" /\ s.offset # None>>,
    <<KwDeclare, s.type = "Declared">>,
    <<ElementListStart(s), TRUE>>>>
DataText(s) == s.data[Len(s.data)] \o <<")">>
DataSegmentParts(s) ==
  <<<<LparData, TRUE>>,
    <<LparMemory, s.type = "Active" /\ s.memory # None>>,
    <<LparOffset, s.type = "Active" /\ s.offset # None>>,
    <<DataText(s), TRUE>>>>

\* C29: Write(ElementSegment) writes the table use and then the offset,
\* each only if present, only for an active segment, and neither for a
\* passive or a declared one whatever its fields hold; a declared segment
\* has the keyword declare before its element list. Write(DataSegment)
\* writes the memory use and the offset only for an active segment, and
\* the data last.
C29_SegmentParts ==
  /\ lastcall = "WriteElementSegment" =>
       PartsInOrder(out, ElementSegmentParts(lastarg[1]))
  /\ lastcall = "WriteDataSegment" =>
       /\ PartsInOrder(out, DataSegmentParts(lastarg[1]))
       /\ EndsWith(out, DataText(lastarg[1]))

\* C29 witness: a declared segment that holds a table use and an offset was
\* written with the keyword declare and without either of them.
C29_Witness ==
  /\ lastcall = "WriteElementSegment"
  /\ ~thrown
  /\ lastarg[1].type = "Declared"
  /\ lastarg[1].table # None
  /\ lastarg[1].offset # None
  /\ Places(out, KwDeclare) # {}
  /\ Places(out, LparTable) = {}
  /\ Places(out, LparOffset) = {}

\* C29 witness of the data segments: a passive segment that holds a memory
\* use and an offset was written without either of them.
C29_WitnessData ==
  /\ lastcall = "WriteDataSegment"
  /\ ~thrown
  /\ lastarg[1].type = "Passive"
  /\ lastarg[1].memory # None
  /\ lastarg[1].offset # None
  /\ Places(out, LparMemory) = {}
  /\ Places(out, LparOffset) = {}


\* C30 helper: the loop takes the filenames one at a time, in their order,
\* each from the head of the loop, and none beyond those given.
TakesNextFile ==
  findex' # findex =>
    /\ pc = "loop"
    /\ findex < args.filenames
    /\ findex' = findex + 1
    /\ \/ pc' = "loop" /\ ~ok'
       \/ pc' = "tool" /\ ok' = ok
\* C30 helper: the loop comes back to its head only from a file whose Run
\* has returned.
RunReturnsFirst ==
  (pc' = "loop" /\ pc \notin {"start", "loop"}) =>
    (pc = "returned" /\ lastfile \in {"ok", "fail"})
\* C30 helper: once the result is the failure, it stays.
FailureStays == (pc # "start" /\ ~ok) => ~ok'
\* C30 helper: at the head of the loop and at the return of Main the
\* result tells whether every file taken could be read and was valid.
ResultIsAllGood == pc \in {"loop", "done"} => (ok = allgood)
AllFilesTaken ==
  pc = "done" => (findex = args.filenames /\ exitcode = Some(ExitCodeOf(allgood)))

\* C30: Main takes every filename it was given, in order, exactly once: a
\* file that cannot be read or that fails validation makes the result the
\* failure and the loop goes on to the files that remain, each of which is
\* read and, if it could be read, validated to the return of Run; a file
\* that succeeds later leaves the failure in place, and Main returns when
\* all the files were taken.
C30_EveryFileOnce ==
  /\ [][TakesNextFile /\ RunReturnsFirst /\ FailureStays]_vars
  /\ [](ResultIsAllGood /\ AllFilesTaken)
  /\ (pc = "loop") ~> (pc = "done" /\ findex = args.filenames)

\* C30 witness: two files were given, the first failed and Run has
\* returned true for the second; the result is still the failure.
C30_Witness ==
  /\ pc = "returned"
  /\ args.filenames = 2
  /\ findex = 2
  /\ lastfile = "ok"
  /\ ~ok

====
